---- MODULE Spec2Model ----
(***************************************************************************)
(* A state-machine model of the gobang terminal database client: the text  *)
(* input widget (ui/textbox.rs), the completion widget                     *)
(* (components/completion.rs), the text area (ui/textarea.rs), the tab     *)
(* panel (components/tab.rs), the sidebar (components/databases.rs) and    *)
(* the application shell and main loop (app.rs, main.rs).                  *)
(*                                                                         *)
(* Strings are sequences of one-character strings.  A character has a      *)
(* UTF-8 byte length and is either a word character (\w) or not: the regex *)
(* of sql_utils.rs reports BYTE offsets, which the widgets then use as     *)
(* indices, so the distinction is kept.  A Rust panic (an out-of-range      *)
(* slice or index) is modelled by the flag `panicked`: the process is gone *)
(* and no further step is taken.                                           *)
(***************************************************************************)
EXTENDS Integers, Sequences, FiniteSets, TLC

\* ------------------------------------------------------------------ bounds
\* Longest buffer a Char key may still extend (text input and rename box).
MaxLen == 2
\* Most key events (and direct calls) delivered to a widget in one run.
MaxKeys == 6
\* Most key events delivered to the tab panel in one run.
MaxTabKeys == 5
\* Most key events delivered to the text area in one run.
MaxAreaKeys == 5
\* Most key events delivered to the application in one run.
MaxAppKeys == 6
\* Most key events delivered in a run that resizes the sidebar: enough to
\* walk the width from 15 to 70 and one step further.
MaxWidthKeys == 12
\* Most key events the main loop accepts in one run.
MaxLoopKeys == 3
\* Most tabs the 'a' key may still add to.
MaxTabs == 4
\* Longest rename-box text a Char key may still extend.
MaxNameLen == 13
\* Most lines / longest line a key may still extend in the text area.
MaxLines == 3
MaxCols == 2
\* Most pools the connection picker may still create.
MaxPools == 3
\* Most full pages a table of the database holds.
MaxPages == 2
\* Most key events (scrolling aside) delivered to the views in one run.
MaxViewKeys == 5
\* Most key events delivered to the SQL editor in one run, and the longest
\* buffer a key may still extend.
MaxSqlKeys == 5
MaxSqlLen == 3

\* ------------------------------------------------------- characters, keys
\* ------------------------------------------------------------------ state
VARIABLES
    \* the KeyConfig handed to every component: the configured bindings
    key_config,
    \* a TextBox (ui/textbox.rs) driven on its own
    textbox,
    \* the TabPanel (components/tab.rs) with its toolbar
    tab_panel,
    \* the GlobalMessageQueue: messages pushed by handlers, not yet handled
    message_queue,
    \* a TextArea (ui/textarea.rs) driven on its own
    text_area,
    \* the App (app.rs)
    app,
    \* every pool created so far: status, number of close() calls and the
    \* pool it replaced
    pools,
    \* the calls made on pools, in the order they completed
    pool_log,
    \* FALSE once the main loop has ended
    running,
    \* where the main loop stands: "draw", "next", "drain", "fanout", "exited"
    loop_pc,
    \* the messages of the last drain, handed to every handle_messages
    batch,
    \* how often the queue was drained for the current key
    drains,
    \* the cooperative tasks of the fan-out and where each stands
    tasks,
    \* the shared pool cell behind its read-write lock
    shared_pool,
    \* the sidebar (components/databases.rs)
    sidebar,
    \* the Records view (components/record_table.rs)
    record_table,
    \* the Properties view (components/properties.rs)
    properties,
    \* the get_records calls issued since the grid was last read from its
    \* first page: the row offset and the filter of each, and how it ended
    page_fetches,
    \* a SQL editor tab (components/sql_editor.rs)
    sql_editor,
    \* TRUE once a handler has panicked
    panicked,
    \* what the last handler returned: "Consumed", "NotConsumed" or "None"
    event_state,
    \* the operation that produced the current state and its argument
    last_op,
    \* number of key events and calls delivered so far
    keys

\* Characters a Char key may carry: two ASCII letters, a space (the only
\* non-word character) and one two-byte letter.
Alphabet == {"a", "n", " ", "é"}

\* Key::Char(c) is the one-character string c; every other key a longer name.
IsChar(key) ==
    key \in Alphabet \cup {"x", "r", "0", "1", "2", "3", "4", "5", "s", "e", "l"}

\* UTF-8 length of a character.
ByteLen(c) == IF c = "é" THEN 2 ELSE 1

\* \w of the regex crate: letters, digits, underscore (Unicode aware).
IsWordChar(c) == c \notin {" ", "\n"}

\* char::to_uppercase restricted to the letters of the keyword list; the
\* (?i) flag of the regex compares letters up to case.
Upper(c) ==
    CASE c = "a" -> "A"
      [] c = "n" -> "N"
      [] c = "x" -> "X"
      [] c = "r" -> "R"
      [] c = "s" -> "S"
      [] c = "e" -> "E"
      [] c = "l" -> "L"
      [] OTHER -> c

NoSel == -1

\* KeyConfig: the keys the configuration binds. The bindings are read from
\* the configuration file; two configurations are considered, one that binds
\* the list movement to the arrow keys and one that binds it to Ctrl keys.
ArrowKeyConfig ==
    [move_up |-> "Up", move_down |-> "Down", focus_left |-> "Left",
     focus_right |-> "Right", focus_above |-> "Up", focus_down |-> "Down"]
CtrlKeyConfig ==
    [move_up |-> "CtrlP", move_down |-> "CtrlN", focus_left |-> "Left",
     focus_right |-> "Right", focus_above |-> "Up", focus_down |-> "Down"]
KeyConfigs == {ArrowKeyConfig, CtrlKeyConfig}
focus_left == key_config.focus_left
focus_right == key_config.focus_right
focus_above == key_config.focus_above
focus_down == key_config.focus_down
move_up == key_config.move_up
move_down == key_config.move_down

\* ---------------------------------------------------------- string helpers
RECURSIVE ByteLenOf(_)
ByteLenOf(s) == IF s = <<>> THEN 0 ELSE ByteLen(Head(s)) + ByteLenOf(Tail(s))

\* Rust's v[a..b] on a Vec<char>, 0-based, defined when a <= b <= len.
SliceOk(s, a, b) == 0 <= a /\ a <= b /\ b <= Len(s)
Slice(s, a, b) == IF SliceOk(s, a, b) THEN SubSeq(s, a + 1, b) ELSE <<>>

RemoveAt(s, i) == SubSeq(s, 1, i) \o SubSeq(s, i + 2, Len(s))
InsertAt(s, i, c) == SubSeq(s, 1, i) \o <<c>> \o SubSeq(s, i + 1, Len(s))

\* ------------------------------------------------------------ sql_utils.rs
\* Positions (1-based) of the non-word characters of s.
SepPositions(s) == {p \in 1..Len(s) : ~IsWordChar(s[p])}

\* First position of the run of non-word characters that ends at position j.
RunStart(s, j) ==
    CHOOSE i \in 1..j :
        /\ \A p \in i..j : ~IsWordChar(s[p])
        /\ (i = 1 \/ IsWordChar(s[i - 1]))

\* find_last_separator: the last match of \W+, as a byte offset and a byte
\* length; found = FALSE when the text has no non-word character.
find_last_separator(s) ==
    IF SepPositions(s) = {}
    THEN [found |-> FALSE, index |-> 0, length |-> 0]
    ELSE LET j == CHOOSE p \in SepPositions(s) : \A q \in SepPositions(s) : q <= p
             i == RunStart(s, j)
         IN  [found |-> TRUE,
              index |-> ByteLenOf(SubSeq(s, 1, i - 1)),
              length |-> ByteLenOf(SubSeq(s, i, j))]

\* ----------------------------------------------- components/completion.rs
Keywords ==
    << <<"I","N">>, <<"A","N","D">>, <<"O","R">>, <<"N","O","T">>,
       <<"N","U","L","L">>, <<"I","S">>, <<"S","E","L","E","C","T">>,
       <<"I","N","S","E","R","T">>, <<"U","P","D","A","T","E">>,
       <<"D","E","L","E","T","E">>, <<"F","R","O","M">>,
       <<"L","I","M","I","T">>, <<"W","H","E","R","E">>,
       <<"L","I","K","E">> >>

\* The pattern "(?i)^{word}" matches kw: word is a prefix of kw up to case.
PatternMatchesExactCase(word, kw) ==
    /\ Len(word) <= Len(kw)
    /\ \A p \in 1..Len(word) : word[p] = kw[p]
PatternMatches(word, kw) ==
    /\ Len(word) <= Len(kw)
    /\ \A p \in 1..Len(word) : Upper(word[p]) = Upper(kw[p])

\* Regex::new fails on a word that is not a valid pattern: a word holding an
\* unbalanced or dangling regex metacharacter.
RegexMeta == {"(", ")", "[", "*", "+", "?"}
PatternCompiles(word) == \A p \in 1..Len(word) : word[p] \notin RegexMeta

\* Names the pool reports (tables, then columns, then databases): a table
\* whose name holds a space and a column whose name holds a two-byte letter.
PoolNames == << <<"n", " ", "a">>, <<"a", "é">> >>

\* The list a source filters: DefaultFilterableCompletionSource holds the
\* keywords, PoolFilterableCompletionSource the pool's names and then the
\* pool's keywords (Pool::get_keywords, the same list).
SourceItems(source) == IF source = "pool" THEN PoolNames \o Keywords ELSE Keywords

\* suggested_completion_items of both sources: the items the pattern matches,
\* in list order.
SuggestedFilter(word, kw) == PatternMatches(word, kw)
suggested_completion_items(source, word) ==
    SelectSeq(SourceItems(source), LAMBDA kw : SuggestedFilter(word, kw))

\* CompletionComponent::new
NewCompletion ==
    [word |-> <<>>, candidates |-> <<>>, selected |-> NoSel, source |-> "default"]

\* CompletionComponent::update
CompletionUpdateKeepsSelection(c, word_part) ==
    IF ~PatternCompiles(word_part)
    THEN [c EXCEPT !.word = word_part, !.selected = NoSel]
    ELSE LET cands == suggested_completion_items(c.source, word_part)
         IN  [c EXCEPT !.word = word_part,
                       !.candidates = cands,
                       !.selected = IF cands = <<>> THEN NoSel
                                    ELSE IF c.selected /= NoSel /\ c.selected < Len(cands)
                                    THEN c.selected ELSE 0]
CompletionUpdate(c, word_part) ==
    IF ~PatternCompiles(word_part)
    THEN [c EXCEPT !.word = word_part, !.selected = NoSel]
    ELSE LET cands == suggested_completion_items(c.source, word_part)
         IN  [c EXCEPT !.word = word_part,
                       !.candidates = cands,
                       !.selected = IF cands /= <<>> THEN 0 ELSE NoSel]

\* CompletionComponent::change_selection
change_selectionWraps(c, offset) ==
    IF c.selected = NoSel \/ c.candidates = <<>> THEN c
    ELSE [c EXCEPT !.selected = (c.selected + offset) % Len(c.candidates)]
change_selection(c, offset) ==
    IF c.selected = NoSel THEN c
    ELSE LET new_selected_index ==
                 IF offset > 0 THEN c.selected + offset
                 ELSE IF c.selected + offset < 0 THEN 0 ELSE c.selected + offset
         IN  IF new_selected_index < Len(c.candidates)
             THEN [c EXCEPT !.selected = new_selected_index]
             ELSE c

\* CompletionComponent::is_visible
is_visible(c) == c.word /= <<>>

\* CompletionComponent::reset
CompletionReset(c) == [c EXCEPT !.word = <<>>, !.selected = NoSel]

\* CompletionComponent::selected_candidate; indexing panics out of range.
SelectedInRange(c) == c.selected = NoSel \/ c.selected < Len(c.candidates)
selected_candidate(c) == c.candidates[c.selected + 1]

\* CompletionComponent::event: move_down / move_up change the selection.
CompletionEvent(c, key) ==
    IF key = move_down THEN [c |-> change_selection(c, 1), consumed |-> TRUE]
    ELSE IF key = move_up THEN [c |-> change_selection(c, -1), consumed |-> TRUE]
    ELSE [c |-> c, consumed |-> FALSE]

\* ---------------------------------------------------------- ui/textbox.rs
\* TextBox::default, optionally .with_completion(..)
NewTextBox(with_completion) ==
    [input |-> <<>>, input_cursor_position |-> 0,
     has_completion |-> with_completion, completion |-> NewCompletion]

\* TextBox::update_completion_src
update_completion_src(tb, src) ==
    IF tb.has_completion THEN [tb EXCEPT !.completion.source = src] ELSE tb

\* TextBox::get_text
get_text(tb) == tb.input

\* TextBox::last_word_part: the slice from the end of the last separator
\* (a BYTE offset) to the cursor; the slice panics when that offset lies
\* beyond the cursor.
LastWordStartWholeInput(tb) == 0
LastWordStart(tb) ==
    LET pat_ind == find_last_separator(Slice(tb.input, 0, tb.input_cursor_position))
    IN  IF pat_ind.found THEN pat_ind.index + pat_ind.length ELSE 0
last_word_part(tb) ==
    LET start == LastWordStart(tb)
    IN  IF /\ SliceOk(tb.input, 0, tb.input_cursor_position)
           /\ SliceOk(tb.input, start, tb.input_cursor_position)
        THEN [panic |-> FALSE, value |-> Slice(tb.input, start, tb.input_cursor_position)]
        ELSE [panic |-> TRUE, value |-> <<>>]

\* TextBox::set_str
set_str(tb, value) ==
    [tb EXCEPT !.input = value, !.input_cursor_position = Len(value)]

\* TextBox::reset
TextBoxReset(tb) ==
    [tb EXCEPT !.input = <<>>, !.input_cursor_position = 0,
               !.completion = IF tb.has_completion THEN CompletionReset(@) ELSE @]

\* TextBox::replace_last_word_part: keeps input[0 .. end of last separator]
\* (a BYTE offset used as an index) and appends the text; the cursor goes to
\* the end of the buffer.
ReplacedInputWithSpace(prefix, text) == prefix \o text \o <<" ">>
ReplacedInput(prefix, text) == prefix \o text
replace_last_word_part(tb, text) ==
    LET pat_ind == find_last_separator(Slice(tb.input, 0, tb.input_cursor_position))
        k == pat_ind.index + pat_ind.length
    IN  IF ~SliceOk(tb.input, 0, tb.input_cursor_position)
        THEN [panic |-> TRUE, tb |-> tb]
        ELSE IF pat_ind.found
        THEN IF SliceOk(tb.input, 0, k)
             THEN [panic |-> FALSE,
                   tb |-> [tb EXCEPT !.input = ReplacedInput(Slice(tb.input, 0, k), text),
                                     !.input_cursor_position =
                                         Len(ReplacedInput(Slice(tb.input, 0, k), text))]]
             ELSE [panic |-> TRUE, tb |-> tb]
        ELSE [panic |-> FALSE,
              tb |-> [tb EXCEPT !.input = ReplacedInput(<<>>, text),
                                !.input_cursor_position = Len(ReplacedInput(<<>>, text))]]

\* A complete_word that, with nothing to commit, empties the buffer.
complete_wordClearsInput(tb) ==
    IF ~tb.has_completion \/ ~is_visible(tb.completion) \/ tb.completion.selected = NoSel
    THEN [panic |-> FALSE,
          tb |-> [tb EXCEPT !.input = <<>>, !.input_cursor_position = 0],
          replaced |-> FALSE]
    ELSE IF ~SelectedInRange(tb.completion)
    THEN [panic |-> TRUE, tb |-> tb, replaced |-> FALSE]
    ELSE LET cand == selected_candidate(tb.completion)
             cleared == [tb EXCEPT !.completion = CompletionReset(@)]
             r == replace_last_word_part(cleared, cand)
         IN  [panic |-> r.panic, tb |-> r.tb, replaced |-> ~r.panic]

\* TextBox::complete_word: replaced = TRUE when the selected candidate was
\* committed.
complete_word(tb) ==
    IF ~tb.has_completion \/ ~is_visible(tb.completion) \/ tb.completion.selected = NoSel
    THEN [panic |-> FALSE, tb |-> tb, replaced |-> FALSE]
    ELSE IF ~SelectedInRange(tb.completion)
    THEN [panic |-> TRUE, tb |-> tb, replaced |-> FALSE]
    ELSE LET cand == selected_candidate(tb.completion)
             cleared == [tb EXCEPT !.completion = CompletionReset(@)]
             r == replace_last_word_part(cleared, cand)
         IN  [panic |-> r.panic, tb |-> r.tb, replaced |-> ~r.panic]

\* Ctrl+Backspace of handle_textbox_event: the last separator of the WHOLE
\* buffer decides where the buffer is cut.
CtrlBackspace(tb) ==
    LET pos == find_last_separator(tb.input)
        k == pos.index + pos.length
        cut == IF k = tb.input_cursor_position THEN pos.index ELSE k
    IN  IF ~pos.found
        THEN [panic |-> FALSE,
              tb |-> [tb EXCEPT !.input = <<>>, !.input_cursor_position = 0]]
        ELSE IF SliceOk(tb.input, 0, cut)
        THEN [panic |-> FALSE,
              tb |-> [tb EXCEPT !.input = Slice(tb.input, 0, cut),
                                !.input_cursor_position = cut]]
        ELSE [panic |-> TRUE, tb |-> tb]

\* Key::Right of handle_textbox_event.
CursorRightUnchecked(tb) == [tb EXCEPT !.input_cursor_position = @ + 1]
CursorRight(tb) ==
    IF tb.input_cursor_position < Len(tb.input)
    THEN [tb EXCEPT !.input_cursor_position = @ + 1] ELSE tb

\* Key::Delete of handle_textbox_event.
DeleteAtCursor(tb) ==
    IF tb.input /= <<>> /\ tb.input_cursor_position <= Len(tb.input) - 1
    THEN [tb EXCEPT !.input = RemoveAt(@, tb.input_cursor_position)] ELSE tb

\* TextBox::handle_textbox_event
handle_textbox_event(tb, key) ==
    LET ok(t) == [panic |-> FALSE, tb |-> t, consumed |-> TRUE]
    IN  CASE IsChar(key) ->
               ok([tb EXCEPT !.input = InsertAt(@, tb.input_cursor_position, key),
                             !.input_cursor_position = @ + 1])
          [] key = "Delete" -> ok(DeleteAtCursor(tb))
          [] key = "CtrlBackspace" ->
               LET r == CtrlBackspace(tb)
               IN  [panic |-> r.panic, tb |-> r.tb, consumed |-> TRUE]
          [] key = "Backspace" ->
               ok(IF tb.input /= <<>> /\ tb.input_cursor_position > 0
                  THEN [tb EXCEPT !.input = RemoveAt(@, tb.input_cursor_position - 1),
                                  !.input_cursor_position = @ - 1]
                  ELSE tb)
          [] key = "Left" ->
               ok(IF tb.input /= <<>> /\ tb.input_cursor_position > 0
                  THEN [tb EXCEPT !.input_cursor_position = @ - 1]
                  ELSE tb)
          [] key = "Right" -> ok(CursorRight(tb))
          [] key = "Home" -> ok([tb EXCEPT !.input_cursor_position = 0])
          [] key = "End" -> ok([tb EXCEPT !.input_cursor_position = Len(tb.input)])
          [] OTHER -> [panic |-> FALSE, tb |-> tb, consumed |-> FALSE]

\* The completion refresh of TextBox::event after a key the text box handled.
RefreshCompletion(tb) ==
    LET w == last_word_part(tb)
    IN  IF ~tb.has_completion THEN [panic |-> FALSE, tb |-> tb]
        ELSE IF w.panic THEN [panic |-> TRUE, tb |-> tb]
        ELSE [panic |-> FALSE,
              tb |-> [tb EXCEPT !.completion = CompletionUpdate(@, w.value)]]

\* TextBox::event
TextBoxEvent(tb, key) ==
    LET h == handle_textbox_event(tb, key)
    IN  IF h.panic THEN [panic |-> TRUE, tb |-> tb, consumed |-> FALSE]
        ELSE IF h.consumed
        THEN LET u == RefreshCompletion(h.tb)
             IN  [panic |-> u.panic, tb |-> u.tb, consumed |-> TRUE]
        ELSE LET ce == CompletionEvent(tb.completion, key)
             IN  IF tb.has_completion /\ ce.consumed
                 THEN [panic |-> FALSE, tb |-> [tb EXCEPT !.completion = ce.c],
                       consumed |-> TRUE]
                 ELSE CASE key \in {"Enter", "Tab"} ->
                             LET r == complete_word(tb)
                             IN  [panic |-> r.panic, tb |-> r.tb, consumed |-> r.replaced]
                        [] key = "Esc" ->
                             IF tb.has_completion /\ is_visible(tb.completion)
                             THEN [panic |-> FALSE,
                                   tb |-> [tb EXCEPT !.completion = CompletionReset(@)],
                                   consumed |-> TRUE]
                             ELSE [panic |-> FALSE, tb |-> tb, consumed |-> FALSE]
                        [] OTHER -> [panic |-> FALSE, tb |-> tb, consumed |-> FALSE]

\* ------------------------------------------------------- components/tab.rs
RecordsName == <<"R", "e", "c", "o", "r", "d", "s">>
PropertiesName == <<"P", "r", "o", "p", "e", "r", "t", "i", "e", "s">>

\* format!("{}", num) for a tab count.
DigitChar(d) ==
    CASE d = 0 -> "0" [] d = 1 -> "1" [] d = 2 -> "2" [] d = 3 -> "3" [] d = 4 -> "4"
      [] d = 5 -> "5" [] d = 6 -> "6" [] d = 7 -> "7" [] d = 8 -> "8" [] OTHER -> "9"
RECURSIVE Decimal(_)
Decimal(n) == IF n < 10 THEN <<DigitChar(n)>> ELSE Decimal(n \div 10) \o <<DigitChar(n % 10)>>

\* format!("Sql Editor {}", num)
SqlEditorName(num) ==
    <<"S", "q", "l", " ", "E", "d", "i", "t", "o", "r", " ">> \o Decimal(num)

\* char::to_digit(10) of a Key::Char; -1 when the character is no digit.
to_digit(key) ==
    CASE key = "0" -> 0 [] key = "1" -> 1 [] key = "2" -> 2 [] key = "3" -> 3
      [] key = "4" -> 4 [] key = "5" -> 5 [] OTHER -> -1

\* The tab components: RecordTableComponent, PropertiesComponent and
\* SqlEditorComponent as far as the Tab trait sees them.
RecordsTab == [tab_type |-> "Records", editor_name |-> <<>>]
PropertiesTab == [tab_type |-> "Properties", editor_name |-> <<>>]
SqlTab(name) == [tab_type |-> "Sql", editor_name |-> name]

\* Tab::tab_name
tab_name(t) ==
    CASE t.tab_type = "Records" -> RecordsName
      [] t.tab_type = "Properties" -> PropertiesName
      [] OTHER -> t.editor_name

\* Tab::update_name: only SqlEditorComponent overrides the empty default.
update_name(t, name) ==
    IF t.tab_type = "Sql" THEN [t EXCEPT !.editor_name = name] ELSE t

\* TabPanel::new with TabToolbar::new: the panel as a record (toolbar
\* fields selected_tab_index, tab_names, is_renaming, rename_box; panel
\* fields tab_components, focus).
NewTabPanel ==
    [selected_tab_index |-> 0,
     tab_names |-> <<tab_name(RecordsTab), tab_name(PropertiesTab)>>,
     is_renaming |-> FALSE,
     rename_box |-> NewTextBox(FALSE),
     tab_components |-> <<RecordsTab, PropertiesTab>>,
     focus |-> "Toolbar"]

\* TabToolbar::remove_tab
ClampSelectedNever(sel, len) == sel
ClampSelected(sel, len) == IF sel >= len THEN len - 1 ELSE sel
remove_tab(tp, index) ==
    LET names == RemoveAt(tp.tab_names, index)
    IN  [tp EXCEPT !.tab_names = names,
                   !.selected_tab_index = ClampSelected(@, Len(names))]

\* A rename_tab_at that writes the name one slot too early.
rename_tab_atOffByOne(tp, index, name) ==
    IF index > 0 /\ index < Len(tp.tab_names)
    THEN [tp EXCEPT !.tab_names[index] = name]
    ELSE tp

\* TabToolbar::rename_tab_at
rename_tab_at(tp, index, name) ==
    IF index > 0 /\ index < Len(tp.tab_names)
    THEN [tp EXCEPT !.tab_names[index + 1] = name]
    ELSE tp

\* TabPanel::close_selected_editor
IsClosable(t) == t.tab_type \notin {"Records", "Properties"}
close_selected_editor(tp) ==
    LET index == tp.selected_tab_index
    IN  IF index < Len(tp.tab_components) /\ IsClosable(tp.tab_components[index + 1])
        THEN remove_tab([tp EXCEPT !.tab_components = RemoveAt(@, index)], index)
        ELSE tp

\* One message of TabPanel::handle_messages.
SelectOnTableSelectedKeepFocus(tp) == [tp EXCEPT !.selected_tab_index = 0]
SelectOnTableSelected(tp) == [tp EXCEPT !.selected_tab_index = 0, !.focus = "Content"]
HandleTabMessage(tp, m) ==
    CASE m.type = "TableSelected" -> SelectOnTableSelected(tp)
      [] m.type = "TabNew" ->
           LET name == SqlEditorName(Len(tp.tab_components) - 1)
           IN  [tp EXCEPT !.tab_components = Append(@, SqlTab(name)),
                          !.tab_names = Append(@, name)]
      [] m.type = "TabCloseCurrent" -> close_selected_editor(tp)
      [] m.type = "TabRename" ->
           IF m.index < Len(tp.tab_components)
           THEN LET tab == update_name(tp.tab_components[m.index + 1], m.name)
                IN  rename_tab_at([tp EXCEPT !.tab_components[m.index + 1] = tab],
                                  m.index, tab_name(tab))
           ELSE tp
      [] OTHER -> tp

\* TabPanel::handle_messages: every message of the drained queue, in order.
RECURSIVE HandleTabMessages(_, _)
HandleTabMessages(tp, ms) ==
    IF ms = <<>> THEN tp ELSE HandleTabMessages(HandleTabMessage(tp, Head(ms)), Tail(ms))

\* TabPanel::change_focus
change_focus(tp, key) ==
    IF tp.focus = "Toolbar" /\ key = focus_down
    THEN [tp |-> [tp EXCEPT !.focus = "Content"], consumed |-> TRUE]
    ELSE IF tp.focus = "Content" /\ key = focus_above
    THEN [tp |-> [tp EXCEPT !.focus = "Toolbar"], consumed |-> TRUE]
    ELSE [tp |-> tp, consumed |-> FALSE]

\* A toolbar whose left/right keys wrap around at the first/last tab.
ToolbarSelectWraps(tp, key) ==
    LET len == Len(tp.tab_names)
        sel == tp.selected_tab_index
        res(i, ms, c) == [selected |-> i, msgs |-> ms, consumed |-> c]
    IN  CASE key = "a" -> res(sel, <<[type |-> "TabNew"]>>, TRUE)
          [] key \in {"x", "Delete"} -> res(sel, <<[type |-> "TabCloseCurrent"]>>, TRUE)
          [] to_digit(key) >= 0 ->
               IF to_digit(key) > 0 /\ to_digit(key) <= len
               THEN res(to_digit(key) - 1, <<>>, TRUE)
               ELSE res(sel, <<>>, FALSE)
          [] key = focus_left -> res((sel + len - 1) % len, <<>>, TRUE)
          [] key = focus_right -> res((sel + 1) % len, <<>>, TRUE)
          [] key = "End" -> res(len - 1, <<>>, TRUE)
          [] key = "Home" -> res(0, <<>>, TRUE)
          [] OTHER -> res(sel, <<>>, FALSE)

\* TabToolbar::event outside rename mode, for a key other than 'r': the new
\* selection, the message pushed and whether the key was consumed.
ToolbarSelect(tp, key) ==
    LET len == Len(tp.tab_names)
        sel == tp.selected_tab_index
        res(i, ms, c) == [selected |-> i, msgs |-> ms, consumed |-> c]
    IN  CASE key = "a" -> res(sel, <<[type |-> "TabNew"]>>, TRUE)
          [] key \in {"x", "Delete"} -> res(sel, <<[type |-> "TabCloseCurrent"]>>, TRUE)
          [] to_digit(key) >= 0 ->
               IF to_digit(key) > 0 /\ to_digit(key) <= len
               THEN res(to_digit(key) - 1, <<>>, TRUE)
               ELSE res(sel, <<>>, FALSE)
          [] key = focus_left /\ sel > 0 -> res(sel - 1, <<>>, TRUE)
          [] key = focus_right /\ sel < len - 1 -> res(sel + 1, <<>>, TRUE)
          [] key = "End" -> res(len - 1, <<>>, TRUE)
          [] key = "Home" -> res(0, <<>>, TRUE)
          [] OTHER -> res(sel, <<>>, FALSE)

\* TabToolbar::event in rename mode, for a key other than Enter and Esc:
\* the key goes to the rename box, whose answer r is dropped.
RenameBoxEvent(tp, r) ==
    [panic |-> r.panic, tp |-> [tp EXCEPT !.rename_box = r.tb], msgs |-> <<>>,
     consumed |-> TRUE]

\* TabToolbar::event outside rename mode: the answer t of ToolbarSelect.
ToolbarSelected(tp, t) ==
    [panic |-> FALSE, tp |-> [tp EXCEPT !.selected_tab_index = t.selected],
     msgs |-> t.msgs, consumed |-> t.consumed]

\* TabToolbar::event
ToolbarEvent(tp, key) ==
    LET res(p, t, ms, c) == [panic |-> p, tp |-> t, msgs |-> ms, consumed |-> c]
    IN  IF tp.is_renaming
        THEN CASE key = "Enter" ->
                    res(FALSE, [tp EXCEPT !.is_renaming = FALSE],
                        <<[type |-> "TabRename", index |-> tp.selected_tab_index,
                           name |-> get_text(tp.rename_box)]>>, TRUE)
               [] key = "Esc" -> res(FALSE, [tp EXCEPT !.is_renaming = FALSE], <<>>, TRUE)
               [] OTHER -> RenameBoxEvent(tp, TextBoxEvent(tp.rename_box, key))
        ELSE IF key = "r"
        THEN IF tp.selected_tab_index < Len(tp.tab_names)
             THEN res(FALSE,
                      [tp EXCEPT !.rename_box =
                                     set_str(TextBoxReset(@),
                                             tp.tab_names[tp.selected_tab_index + 1]),
                                 !.is_renaming = TRUE],
                      <<>>, TRUE)
             ELSE res(TRUE, [tp EXCEPT !.rename_box = TextBoxReset(@)], <<>>, FALSE)
        ELSE ToolbarSelected(tp, ToolbarSelect(tp, key))

\* TabPanel::event after the focused child left the key unconsumed: the
\* answer cf of change_focus decides.
FocusChanged(cf, msgs) ==
    [panic |-> FALSE, tp |-> cf.tp, msgs |-> msgs, consumed |-> cf.consumed]

\* TabPanel::event with the focus on the toolbar, whose answer is r.
ToolbarFocused(r, key) ==
    IF r.panic \/ r.consumed THEN r
    ELSE FocusChanged(change_focus(r.tp, key), r.msgs)

\* TabPanel::event. content_consumed is what the selected tab's own event
\* handler answers when the content has the focus.
TabPanelEvent(tp, key, content_consumed) ==
    IF tp.focus = "Toolbar"
    THEN ToolbarFocused(ToolbarEvent(tp, key), key)
    ELSE IF tp.selected_tab_index < Len(tp.tab_components) /\ content_consumed
    THEN [panic |-> FALSE, tp |-> tp, msgs |-> <<>>, consumed |-> TRUE]
    ELSE FocusChanged(change_focus(tp, key), <<>>)

\* TabPanel::reset
TabPanelReset(tp) == [tp EXCEPT !.selected_tab_index = 0]

\* ---------------------------------------------------------- ui/textarea.rs
\* A line is a String: its UTF-8 bytes. A one-byte character is its own
\* byte; a two-byte character is its own lead byte followed by Cont.
Cont == "~"
Bytes(c) == IF ByteLen(c) = 2 THEN <<c, Cont>> ELSE <<c>>
RECURSIVE Encode(_)
Encode(chars) == IF chars = <<>> THEN <<>> ELSE Bytes(Head(chars)) \o Encode(Tail(chars))
Decode(bytes) == SelectSeq(bytes, LAMBDA b : b /= Cont)

\* str::is_char_boundary
is_char_boundary(line, i) ==
    \/ i = 0
    \/ i = Len(line)
    \/ (0 < i /\ i < Len(line) /\ line[i + 1] /= Cont)

\* &line[a..b] panics unless a <= b <= len and both lie on char boundaries.
StrSliceOk(line, a, b) ==
    a <= b /\ b <= Len(line) /\ is_char_boundary(line, a) /\ is_char_boundary(line, b)

\* String::insert / insert_str at a char boundary.
StrInsert(line, i, bytes) == SubSeq(line, 1, i) \o bytes \o SubSeq(line, i + 1, Len(line))

\* String::remove: the whole character that starts at byte i; panics unless
\* i < len and i lies on a char boundary.
StrRemoveOk(line, i) == i < Len(line) /\ is_char_boundary(line, i)
StrRemove(line, i) ==
    SubSeq(line, 1, i) \o SubSeq(line, i + 1 + ByteLen(line[i + 1]), Len(line))

\* SaturatingU16: += and -= saturate at the bounds of u16.
U16Max == 65535
SatAdd(x, y) == IF x + y > U16Max THEN U16Max ELSE x + y
SatSub(x, y) == IF x - y < 0 THEN 0 ELSE x - y

\* TextArea::new; the completion source is the pool's when a pool exists.
NewTextArea(source) ==
    [buffer |-> <<>>,
     completion |-> [NewCompletion EXCEPT !.source = source],
     cursor_position |-> [row |-> 0, col |-> 0]]

\* self.buffer.get(r).map(|l| l.len() as u16).unwrap_or(0)
LineLen(ta, r) == IF r < Len(ta.buffer) THEN Len(ta.buffer[r + 1]) ELSE 0

\* Where the last word of &line[0..col] starts: behind the last separator,
\* or at 0 when there is none.
LineWordStart(line, col) ==
    LET last_sep == find_last_separator(Decode(SubSeq(line, 1, col)))
    IN  IF last_sep.found THEN last_sep.index + last_sep.length ELSE 0

\* TextArea::update_completion
update_completion(ta) ==
    LET col == ta.cursor_position.col
        row == ta.cursor_position.row
    IN  IF row >= Len(ta.buffer) THEN [panic |-> FALSE, ta |-> ta]
        ELSE IF ~StrSliceOk(ta.buffer[row + 1], 0, col) THEN [panic |-> TRUE, ta |-> ta]
        ELSE [panic |-> FALSE,
              ta |-> [ta EXCEPT !.completion =
                         CompletionUpdate(@,
                             Decode(SubSeq(ta.buffer[row + 1],
                                           LineWordStart(ta.buffer[row + 1], col) + 1,
                                           col)))]]

\* update_completion after a step r that may have panicked.
ThenUpdateCompletion(r) ==
    IF r.panic THEN [panic |-> TRUE, ta |-> r.ta, consumed |-> FALSE]
    ELSE [panic |-> update_completion(r.ta).panic, ta |-> update_completion(r.ta).ta,
          consumed |-> TRUE]

\* TextArea::replace_last_word
ReplacedLine(line, col, bytes) ==
    IF find_last_separator(Decode(SubSeq(line, 1, col))).found
    THEN SubSeq(line, 1, LineWordStart(line, col)) \o bytes \o SubSeq(line, col + 1, Len(line))
    ELSE bytes
replace_last_word(ta, candidate) ==
    LET col == ta.cursor_position.col
        row == ta.cursor_position.row
    IN  IF row >= Len(ta.buffer) THEN [panic |-> FALSE, ta |-> ta]
        ELSE IF ~StrSliceOk(ta.buffer[row + 1], 0, col) THEN [panic |-> TRUE, ta |-> ta]
        ELSE [panic |-> FALSE,
              ta |-> [ta EXCEPT
                        !.buffer[row + 1] = ReplacedLine(@, col, Encode(candidate)),
                        !.cursor_position.col =
                            LineWordStart(ta.buffer[row + 1], col) + Len(Encode(candidate))]]

\* TextArea::remove_prev_char
remove_prev_char(ta) ==
    LET col == ta.cursor_position.col
        row == ta.cursor_position.row
        res(p, t, b) == [panic |-> p, ta |-> t, removed |-> b]
    IN  IF row = 0 /\ col = 0 THEN res(FALSE, ta, FALSE)
        ELSE IF col > 0
        THEN IF row >= Len(ta.buffer) THEN res(FALSE, ta, FALSE)
             ELSE IF ~StrRemoveOk(ta.buffer[row + 1], col - 1) THEN res(TRUE, ta, FALSE)
             ELSE res(FALSE,
                      [ta EXCEPT !.buffer[row + 1] = StrRemove(@, col - 1),
                                 !.cursor_position.col = SatSub(col, 1)],
                      TRUE)
        ELSE IF row >= Len(ta.buffer) THEN res(TRUE, ta, FALSE)
        ELSE res(FALSE,
                 [ta EXCEPT
                    !.buffer = [RemoveAt(@, row) EXCEPT ![row] = @ \o ta.buffer[row + 1]],
                    !.cursor_position = [row |-> row - 1, col |-> Len(ta.buffer[row])]],
                 TRUE)

\* The row remove_next_char leaves the cursor on after deleting an empty line.
RowAfterRemove(row, len) == IF row > len THEN len ELSE row

\* TextArea::remove_next_char
remove_next_char(ta) ==
    LET col == ta.cursor_position.col
        row == ta.cursor_position.row
        curr_line_length == LineLen(ta, row)
        res(p, t, b) == [panic |-> p, ta |-> t, removed |-> b]
    IN  IF row = Len(ta.buffer)
           /\ col = (IF ta.buffer = <<>> THEN 0 ELSE Len(ta.buffer[Len(ta.buffer)]))
        THEN res(FALSE, ta, FALSE)
        ELSE IF curr_line_length = 0
        THEN IF row >= Len(ta.buffer) THEN res(TRUE, ta, FALSE)
             ELSE res(FALSE,
                      [ta EXCEPT !.buffer = RemoveAt(@, row),
                                 !.cursor_position.row =
                                     RowAfterRemove(row, Len(ta.buffer) - 1)],
                      TRUE)
        ELSE IF col < curr_line_length
        THEN IF ~StrRemoveOk(ta.buffer[row + 1], col) THEN res(TRUE, ta, FALSE)
             ELSE res(FALSE, [ta EXCEPT !.buffer[row + 1] = StrRemove(@, col)], TRUE)
        ELSE IF SatAdd(row, 1) < Len(ta.buffer)
        THEN res(FALSE,
                 [ta EXCEPT !.buffer =
                     [RemoveAt(@, row + 1) EXCEPT ![row + 1] = @ \o ta.buffer[row + 2]]],
                 TRUE)
        ELSE res(FALSE, ta, FALSE)

\* TextArea::insert_new_line; Vec::insert panics when the index exceeds the
\* length, String::drain when the cursor is not on a char boundary.
insert_new_line(ta) ==
    LET col == ta.cursor_position.col
        row == ta.cursor_position.row
        split == col < LineLen(ta, row)
    IN  IF split /\ ~is_char_boundary(ta.buffer[row + 1], col) THEN [panic |-> TRUE, ta |-> ta]
        ELSE IF SatAdd(row, 1) > Len(ta.buffer) THEN [panic |-> TRUE, ta |-> ta]
        ELSE [panic |-> FALSE,
              ta |-> [ta EXCEPT
                        !.buffer =
                            IF split
                            THEN SubSeq(@, 1, row) \o <<SubSeq(@[row + 1], 1, col)>>
                                 \o <<SubSeq(@[row + 1], col + 1, Len(@[row + 1]))>>
                                 \o SubSeq(@, row + 2, Len(@))
                            ELSE SubSeq(@, 1, row + 1) \o << <<>> >> \o SubSeq(@, row + 2, Len(@)),
                        !.cursor_position = [row |-> SatAdd(row, 1), col |-> 0]]]

\* TextArea::complete_word
TextAreaCompleteWord(ta) ==
    IF ta.completion.selected = NoSel THEN [panic |-> FALSE, ta |-> ta, replaced |-> FALSE]
    ELSE IF ~SelectedInRange(ta.completion) THEN [panic |-> TRUE, ta |-> ta, replaced |-> FALSE]
    ELSE [panic |-> replace_last_word(ta, selected_candidate(ta.completion)).panic,
          ta |-> [replace_last_word(ta, selected_candidate(ta.completion)).ta
                     EXCEPT !.completion = CompletionReset(@)],
          replaced |-> TRUE]

\* TextArea::event, Key::Char(c): the character goes into the current line,
\* or into a line pushed at the end of the buffer when there is none.
TextAreaChar(ta, c) ==
    LET col == ta.cursor_position.col
        row == ta.cursor_position.row
        has_line == row < Len(ta.buffer)
        at == IF has_line THEN row + 1 ELSE Len(ta.buffer) + 1
        lines == IF has_line THEN ta.buffer ELSE Append(ta.buffer, <<>>)
    IN  IF ~is_char_boundary(lines[at], col) \/ col > Len(lines[at])
        THEN [panic |-> TRUE, ta |-> [ta EXCEPT !.buffer = lines]]
        ELSE [panic |-> FALSE,
              ta |-> [ta EXCEPT !.buffer = [lines EXCEPT ![at] = StrInsert(@, col, Bytes(c))],
                                !.cursor_position.col = SatAdd(col, 1)]]

\* TextArea::event, Ctrl+End: buffer.len() - 1 overflows on an empty buffer,
\* which panics in a build with overflow checks and wraps in one without.
TextAreaCtrlEnd(ta, overflow_checks) ==
    IF ta.buffer = <<>>
    THEN IF overflow_checks THEN [panic |-> TRUE, ta |-> ta]
         ELSE [panic |-> FALSE, ta |-> [ta EXCEPT !.cursor_position = [row |-> U16Max, col |-> 0]]]
    ELSE [panic |-> FALSE,
          ta |-> [ta EXCEPT !.cursor_position =
                     [row |-> Len(ta.buffer) - 1, col |-> Len(ta.buffer[Len(ta.buffer)])]]]

\* TextArea::event, the arrow keys; each resets the completion first.
DownColumn(ta, row, col) == IF col > LineLen(ta, row) THEN LineLen(ta, row) ELSE col
TextAreaArrow(ta, key) ==
    LET col == ta.cursor_position.col
        row == ta.cursor_position.row
        curr_line_length == LineLen(ta, row)
        last_line_length == LineLen(ta, SatSub(row, 1))
        last_row == SatSub(Len(ta.buffer), 1)
        t == [ta EXCEPT !.completion = CompletionReset(@)]
        res(r, c) == [panic |-> FALSE, ta |-> [t EXCEPT !.cursor_position = [row |-> r, col |-> c]],
                      consumed |-> TRUE]
        none == [panic |-> FALSE, ta |-> t, consumed |-> FALSE]
    IN  CASE key = "Left" ->
               IF col = 0 /\ row > 0 THEN res(SatSub(row, 1), last_line_length)
               ELSE IF col > 0 THEN res(row, SatSub(col, 1))
               ELSE none
          [] key = "Right" ->
               IF col = curr_line_length /\ row < last_row THEN res(SatAdd(row, 1), 0)
               ELSE IF col < curr_line_length THEN res(row, SatAdd(col, 1))
               ELSE none
          [] key = "Up" ->
               IF row > 0
               THEN res(SatSub(row, 1), IF col > last_line_length THEN last_line_length ELSE col)
               ELSE none
          [] key = "Down" ->
               IF row < last_row THEN res(SatAdd(row, 1), DownColumn(ta, row, col))
               ELSE none
          [] OTHER -> [panic |-> FALSE, ta |-> ta, consumed |-> FALSE]

\* A step r of TextArea::event that answers Consumed unless it panicked.
Answer(r) == [panic |-> r.panic, ta |-> r.ta, consumed |-> ~r.panic]

\* Enter: insert_new_line, then completion.reset().
ThenResetCompletion(r) ==
    [panic |-> r.panic, ta |-> [r.ta EXCEPT !.completion = CompletionReset(@)],
     consumed |-> ~r.panic]

\* Delete / Backspace: the removal r, then update_completion when it removed
\* something; otherwise the key falls through every later test unconsumed.
ThenUpdateIfRemoved(r) ==
    IF r.panic \/ ~r.removed THEN [panic |-> r.panic, ta |-> r.ta, consumed |-> FALSE]
    ELSE ThenUpdateCompletion(r)

\* TextArea::event behind the completion widget and the commit test.
TextAreaEdit(ta, key, overflow_checks) ==
    LET col == ta.cursor_position.col
        row == ta.cursor_position.row
    IN  CASE key = "Enter" -> ThenResetCompletion(insert_new_line(ta))
          [] key = "Delete" -> ThenUpdateIfRemoved(remove_next_char(ta))
          [] key = "Home" ->
               [panic |-> FALSE, ta |-> [ta EXCEPT !.cursor_position.col = 0], consumed |-> TRUE]
          [] key = "CtrlHome" ->
               [panic |-> FALSE, ta |-> [ta EXCEPT !.cursor_position = [row |-> 0, col |-> 0]],
                consumed |-> TRUE]
          [] key = "CtrlEnd" -> Answer(TextAreaCtrlEnd(ta, overflow_checks))
          [] key = "End" /\ col < LineLen(ta, row) ->
               [panic |-> FALSE, ta |-> [ta EXCEPT !.cursor_position.col = LineLen(ta, row)],
                consumed |-> TRUE]
          [] key = "Backspace" -> ThenUpdateIfRemoved(remove_prev_char(ta))
          [] OTHER -> TextAreaArrow(ta, key)

\* The commit test of TextArea::event: Enter or Tab while the dropdown is
\* visible commits the selected candidate, if there is one.
CommitOrEdit(ta, key, overflow_checks, r) ==
    IF key \in {"Enter", "Tab"} /\ is_visible(ta.completion) /\ (r.panic \/ r.replaced)
    THEN [panic |-> r.panic, ta |-> r.ta, consumed |-> ~r.panic]
    ELSE TextAreaEdit(ta, key, overflow_checks)

\* TextArea::event
TextAreaEvent(ta, key, overflow_checks) ==
    IF CompletionEvent(ta.completion, key).consumed
    THEN [panic |-> FALSE, ta |-> [ta EXCEPT !.completion = CompletionEvent(@, key).c],
          consumed |-> TRUE]
    ELSE IF IsChar(key) THEN ThenUpdateCompletion(TextAreaChar(ta, key))
    ELSE CommitOrEdit(ta, key, overflow_checks, TextAreaCompleteWord(ta))

\* ------------------------------------------------------------------ app.rs
\* self.pool = None
NoPool == 0

\* App::new
NewApp ==
    [focus |-> "ConnectionList", pool |-> NoPool, left_main_chunk_percentage |-> 15,
     error_visible |-> FALSE, error |-> ""]

\* The configured connections: one that pins a database and one that does not.
Connections ==
    {[name |-> "pinned", database |-> "db1"], [name |-> "open", database |-> "None"]}

\* What a handler works on: the App, every pool created so far (a pool is
\* named by its position), the calls made on pools so far, in order, and
\* whether the handler has returned Err, and with which message.
AppState(a, ps, log) ==
    [app |-> a, pools |-> ps, pool_log |-> log, err |-> FALSE, message |-> ""]

\* App::update_databases, `pool.close().await` on the pool held so far.
ClosePreviousSkipped(st) == st
ClosePrevious(st) ==
    IF st.app.pool = NoPool THEN st
    ELSE [st EXCEPT !.pools[st.app.pool].status = "closed",
                    !.pools[st.app.pool].closes = @ + 1,
                    !.pool_log = Append(@, [ev |-> "close", pool |-> st.app.pool])]

\* App::update_databases, `self.pool = Some(Box::new(XPool::new(url).await?))`:
\* a failed creation returns Err before the assignment.
CreateAndPublish(st, create_ok) ==
    IF ~create_ok THEN [st EXCEPT !.err = TRUE, !.message = "pool creation failed"]
    ELSE [st EXCEPT
            !.pools = Append(@, [status |-> "connected", closes |-> 0,
                                 replaced |-> st.app.pool]),
            !.app.pool = Len(st.pools) + 1,
            !.pool_log = @ \o <<[ev |-> "create", pool |-> Len(st.pools) + 1],
                                [ev |-> "publish", pool |-> Len(st.pools) + 1]>>]

\* An update_databases that moves the focus before the sidebar is updated.
UpdateSidebarAndFocusFirst(st, update_ok) ==
    IF st.err THEN st
    ELSE [st EXCEPT
            !.pool_log = Append(@, [ev |-> "call", pool |-> st.app.pool]),
            !.err = ~update_ok,
            !.message = IF update_ok THEN @ ELSE "sidebar update failed",
            !.app.focus = "DatabaseList"]

\* App::update_databases, `self.databases.update(conn, pool).await?` and the
\* focus change behind it.
UpdateSidebarAndFocus(st, update_ok) ==
    IF st.err THEN st
    ELSE [st EXCEPT
            !.pool_log = Append(@, [ev |-> "call", pool |-> st.app.pool]),
            !.err = ~update_ok,
            !.message = IF update_ok THEN @ ELSE "sidebar update failed",
            !.app.focus = IF update_ok THEN "DatabaseList" ELSE @]

\* App::update_databases for the selected connection.
update_databases(st, create_ok, update_ok) ==
    UpdateSidebarAndFocus(CreateAndPublish(ClosePrevious(st), create_ok), update_ok)

\* A resize without the cap at 70.
extend_or_shorten_widget_widthUncapped(a, key) ==
    IF key = "<"
    THEN [app |-> [a EXCEPT !.left_main_chunk_percentage =
                                  IF SatSub(@, 5) > 15 THEN SatSub(@, 5) ELSE 15],
          consumed |-> TRUE]
    ELSE IF key = ">"
    THEN [app |-> [a EXCEPT !.left_main_chunk_percentage = @ + 5],
          consumed |-> TRUE]
    ELSE [app |-> a, consumed |-> FALSE]

\* App::extend_or_shorten_widget_width
extend_or_shorten_widget_width(a, key) ==
    IF key = "<"
    THEN [app |-> [a EXCEPT !.left_main_chunk_percentage =
                                  IF SatSub(@, 5) > 15 THEN SatSub(@, 5) ELSE 15],
          consumed |-> TRUE]
    ELSE IF key = ">"
    THEN [app |-> [a EXCEPT !.left_main_chunk_percentage =
                                  IF @ + 5 < 70 THEN @ + 5 ELSE 70],
          consumed |-> TRUE]
    ELSE [app |-> a, consumed |-> FALSE]

\* App::move_focus
move_focus(a, key, tree_focused) ==
    IF key = "c" THEN [app |-> [a EXCEPT !.focus = "ConnectionList"], consumed |-> TRUE]
    ELSE IF a.focus = "ConnectionList" /\ key = "Enter"
    THEN [app |-> [a EXCEPT !.focus = "DatabaseList"], consumed |-> TRUE]
    ELSE IF a.focus = "DatabaseList" /\ key = focus_right /\ tree_focused
    THEN [app |-> [a EXCEPT !.focus = "TabPanel"], consumed |-> TRUE]
    ELSE IF a.focus = "TabPanel" /\ key = focus_left
    THEN [app |-> [a EXCEPT !.focus = "DatabaseList"], consumed |-> TRUE]
    ELSE [app |-> a, consumed |-> FALSE]

\* ErrorComponent::event: a visible overlay consumes every key and is
\* dismissed by the exit-popup key.
ErrorEventPassesKeys(a, key) ==
    IF a.error_visible /\ key = "Esc"
    THEN [app |-> [a EXCEPT !.error_visible = FALSE, !.error = ""], consumed |-> TRUE]
    ELSE [app |-> a, consumed |-> FALSE]
ErrorEvent(a, key) ==
    IF a.error_visible
    THEN [app |-> IF key = "Esc" THEN [a EXCEPT !.error_visible = FALSE, !.error = ""]
                  ELSE a,
          consumed |-> TRUE]
    ELSE [app |-> a, consumed |-> FALSE]

\* The connection picker's own key handling: the list consumes the keys
\* that move its selection.
ConnectionsEvent(key) == key \in {"Up", "Down"}

\* App::event, the answer of a step that consumed or did not consume.
AppAnswer(st, consumed) ==
    [app |-> st.app, pools |-> st.pools, pool_log |-> st.pool_log, err |-> st.err,
     message |-> st.message, consumed |-> consumed /\ ~st.err]

\* App::event behind components_event: move_focus on an unconsumed key.
ThenMoveFocus(st, w, key, tree_focused) ==
    IF w.consumed THEN AppAnswer([st EXCEPT !.app = w.app], TRUE)
    ELSE AppAnswer([st EXCEPT !.app = move_focus(w.app, key, tree_focused).app],
                   move_focus(w.app, key, tree_focused).consumed)

\* App::components_event behind the error overlay, and App::event behind it.
\* child is the answer of the focused child (sidebar or tab panel):
\* "Consumed", "NotConsumed" or "Err"; tree_focused is the sidebar's
\* DatabasesComponent::tree_focused().
AppFocusedEvent(st, key, create_ok, update_ok, child, tree_focused) ==
    IF st.app.focus = "ConnectionList" /\ ConnectionsEvent(key) THEN AppAnswer(st, TRUE)
    ELSE IF st.app.focus = "ConnectionList" /\ key = "Enter"
    THEN AppAnswer(update_databases(st, create_ok, update_ok), TRUE)
    ELSE IF st.app.focus /= "ConnectionList" /\ child = "Err"
    THEN AppAnswer([st EXCEPT !.err = TRUE, !.message = "component failed"], FALSE)
    ELSE IF st.app.focus /= "ConnectionList" /\ child = "Consumed" THEN AppAnswer(st, TRUE)
    ELSE ThenMoveFocus(st, extend_or_shorten_widget_width(st.app, key), key, tree_focused)

\* App::event
AppEvent(st, key, create_ok, update_ok, child, tree_focused) ==
    IF ErrorEvent(st.app, key).consumed
    THEN AppAnswer([st EXCEPT !.app = ErrorEvent(st.app, key).app], TRUE)
    ELSE AppFocusedEvent(st, key, create_ok, update_ok, child, tree_focused)

\* App::components_event with the focus on the sidebar: Enter on a selected
\* table, left unconsumed by the sidebar, is handed to the tab panel as
\* DatabaseEvent::TableSelected.
ReachesTabPanel(a, key, child, tree_focused, table_selected) ==
    /\ ~a.error_visible
    /\ a.focus = "DatabaseList"
    /\ child = "NotConsumed"
    /\ key = "Enter" /\ tree_focused /\ table_selected

\* ----------------------------------------------------------------- main.rs
\* The keys that end the loop when no component consumed them.
IsQuitKey(key) == key \in {"q", "CtrlC"}

\* main, the arm for Event::Input(key): the answer r of app.event(key).await
\* either ends the loop or, on Err, raises the error overlay with the
\* error's message (ErrorComponent::set).
StillRunning(key, r) == r.err \/ r.consumed \/ ~IsQuitKey(key)
AppAfterEventSilent(r) == r.app
AppAfterEvent(r) ==
    IF r.err THEN [r.app EXCEPT !.error_visible = TRUE, !.error = r.message] ELSE r.app

\* -------------------------------------------- components/databases.rs
\* DatabasesComponent::new: an empty tree, no filter, no filtered tree.
NoDatabases == [pool |-> NoPool, database |-> "None"]
NewSidebar ==
    [databases |-> NoDatabases, filter |-> <<>>, filterd_tree |-> "None",
     selection |-> "Initial"]

\* The list a pool call of DatabasesComponent::update answers: for a pinned
\* database the one Database built from pool.get_tables(database), otherwise
\* pool.get_databases(); named by the pool asked and the database pinned.
DatabasesFrom(pool, connection) == [pool |-> pool, database |-> connection.database]

\* DatabasesComponent::update behind the pool call: a new tree, no filtered
\* tree, the filter input reset.
SidebarUpdated(sb, databases) ==
    [sb EXCEPT !.databases = databases, !.filterd_tree = "None", !.filter = <<>>,
               !.selection = "Initial"]

\* The connection a batch of messages announces: the last
\* ConnectionChanged(Some(c)) in it, or none.
RECURSIVE ChangedConnection(_)
ChangedConnection(ms) ==
    IF ms = <<>> THEN [found |-> FALSE]
    ELSE IF ms[Len(ms)].type = "ConnectionChanged"
    THEN [found |-> TRUE, connection |-> ms[Len(ms)].connection]
    ELSE ChangedConnection(SubSeq(ms, 1, Len(ms) - 1))

\* RwLock::try_read on the shared pool: fails while a write guard is held.
TryReadFails(sp) == sp.writer

\* JoinAll of TabPanel::handle_messages: ready when every tab's own
\* handle_messages has completed.
ChildrenJoinedAtOnce(ts) == TRUE
ChildrenJoined(ts) == ts.records = "done" /\ ts.properties = "done"

\* ------------------------------------------------------- database/mod.rs
RECORDS_LIMIT_PER_PAGE == 200

\* The tables of the database, told apart by their number of rows: every
\* table holds a whole number of full pages.
Tables == {[rows |-> RECORDS_LIMIT_PER_PAGE * k] : k \in 0..MaxPages}
NoTable == [rows |-> -1]

\* Pool::get_records: at most RECORDS_LIMIT_PER_PAGE rows from the row offset
\* on (LIMIT page, limit); a filter is taken to match one row of a table
\* that has rows. The headers are read off the rows, so there are none
\* without a row.
RowsFrom(table, page) ==
    IF table.rows - page <= 0 THEN 0
    ELSE IF table.rows - page > RECORDS_LIMIT_PER_PAGE THEN RECORDS_LIMIT_PER_PAGE
    ELSE table.rows - page
get_records(table, page, filter) ==
    [rows |-> IF filter = <<>> THEN RowsFrom(table, page)
              ELSE IF RowsFrom(table, page) > 0 THEN 1 ELSE 0,
     headers |-> IF RowsFrom(table, page) > 0 THEN 1 ELSE 0]

\* ------------------------------------------------------- the grid widget
\* TableComponent: the table shown, the number of header cells and of rows,
\* and the selected row.
NewTable == [of |-> NoTable, headers |-> 0, rows |-> 0, selected_row |-> NoSel]
TableUpdate(rows, headers, table) ==
    [of |-> table, headers |-> headers, rows |-> rows,
     selected_row |-> IF rows > 0 THEN 0 ELSE NoSel]
TableReset(t) == NewTable

\* TableComponent::event: Down selects the next row, Up the previous one.
TableEvent(t, key) ==
    CASE key = "Down" ->
           [t |-> IF t.selected_row /= NoSel /\ t.selected_row + 1 < t.rows
                  THEN [t EXCEPT !.selected_row = @ + 1] ELSE t,
            consumed |-> TRUE]
      [] key = "Up" ->
           [t |-> IF t.selected_row /= NoSel /\ t.selected_row > 0
                  THEN [t EXCEPT !.selected_row = @ - 1] ELSE t,
            consumed |-> TRUE]
      [] OTHER -> [t |-> t, consumed |-> FALSE]

\* --------------------------------------- components/record_table.rs
\* RecordTableComponent::new
NewRecordTable ==
    [filter |-> NewTextBox(TRUE), label |-> NoTable, table |-> NewTable,
     focus |-> "Table", dtable |-> NoTable]

\* RecordTableComponent::reset
RecordTableReset(rt) ==
    [rt EXCEPT !.table = TableReset(@), !.filter = TextBoxReset(@)]

\* What a call of get_records leaves in the list of page fetches: the table
\* and the offset asked for, and the filter text when it is not empty.
FetchAlwaysFiltered(rt, pool_present, call_ok) ==
    IF pool_present
    THEN <<[table |-> rt.dtable, offset |-> 0,
            filter |-> [some |-> TRUE, text |-> get_text(rt.filter)], ok |-> call_ok]>>
    ELSE <<>>
Fetch(rt, pool_present, call_ok) ==
    IF pool_present
    THEN <<[table |-> rt.dtable, offset |-> 0,
            filter |-> IF get_text(rt.filter) = <<>> THEN [some |-> FALSE]
                       ELSE [some |-> TRUE, text |-> get_text(rt.filter)],
            ok |-> call_ok]>>
    ELSE <<>>

\* reload_results_table when the pool call fails: `?` returns the error
\* with the grid untouched.
ReloadFailedCleared(rt) == [rt EXCEPT !.table = NewTable]
ReloadFailed(rt) == rt

\* reload_results_table behind the pool call: the grid and the filter's
\* label are replaced.
Reloaded(rt, res) ==
    [rt EXCEPT !.table = TableUpdate(res.rows, res.headers, rt.dtable),
               !.label = rt.dtable]

\* RecordTableComponent::reload_results_table: the first page of the table,
\* under the filter text if there is one; without a pool the grid is
\* emptied.
reload_results_table(rt, pool_present, call_ok) ==
    IF rt.dtable = NoTable THEN [rt |-> rt, err |-> FALSE, fetched |-> <<>>]
    ELSE IF pool_present /\ ~call_ok
    THEN [rt |-> ReloadFailed(rt), err |-> TRUE,
          fetched |-> Fetch(rt, pool_present, call_ok)]
    ELSE [rt |-> Reloaded(rt, IF pool_present
                              THEN get_records(rt.dtable, 0, get_text(rt.filter))
                              ELSE [rows |-> 0, headers |-> 0]),
          err |-> FALSE,
          fetched |-> Fetch(rt, pool_present, call_ok)]

\* RecordTableComponent::update_table
update_table(rt, table, pool_present, call_ok) ==
    reload_results_table([rt EXCEPT !.dtable = table], pool_present, call_ok)

\* RecordTableComponent::handle_messages for TableSelected: reset, then
\* update_table, then the filter's completion reads from the pool.
ThenPoolCompletion(r, pool_present) ==
    IF r.err \/ ~pool_present THEN r
    ELSE [r EXCEPT !.rt.filter = update_completion_src(@, "pool")]
RecordTableSelected(rt, table, pool_present, call_ok) ==
    ThenPoolCompletion(update_table(RecordTableReset(rt), table, pool_present, call_ok),
                       pool_present)

\* RecordTableComponent::event
RecordAnswer(rt, consumed) ==
    [rt |-> rt, err |-> FALSE, fetched |-> <<>>, consumed |-> consumed, panic |-> FALSE]
FilterSubmitted(r) ==
    [rt |-> IF r.err THEN r.rt ELSE [r.rt EXCEPT !.focus = "Table"],
     err |-> r.err, fetched |-> r.fetched, consumed |-> ~r.err, panic |-> FALSE]
GridEvent(rt, te) == RecordAnswer([rt EXCEPT !.table = te.t], te.consumed)
FilterEvent(rt, fe, key, pool_present, call_ok) ==
    IF fe.panic THEN [RecordAnswer(rt, FALSE) EXCEPT !.panic = TRUE]
    ELSE IF fe.consumed THEN RecordAnswer([rt EXCEPT !.filter = fe.tb], TRUE)
    ELSE IF key = "Enter"
    THEN FilterSubmitted(reload_results_table(rt, pool_present, call_ok))
    ELSE IF key = "Esc" THEN RecordAnswer([rt EXCEPT !.focus = "Table"], TRUE)
    ELSE RecordAnswer(rt, FALSE)
RecordTableEvent(rt, key, pool_present, call_ok) ==
    IF rt.focus = "Table"
    THEN IF key = "/" THEN RecordAnswer([rt EXCEPT !.focus = "Filter"], TRUE)
         ELSE GridEvent(rt, TableEvent(rt.table, key))
    ELSE FilterEvent(rt, TextBoxEvent(rt.filter, key), key, pool_present, call_ok)

\* ------------------------------------------ components/properties.rs
\* PropertiesComponent::new
NewProperties ==
    [column_table |-> NewTable, constraint_table |-> NewTable,
     foreign_key_table |-> NewTable, index_table |-> NewTable, focus |-> "Column"]

\* What the pool answers for a table: its columns, one constraint, no
\* foreign key and one index.
PropertyRows(call) == IF call = "get_foreign_keys" THEN 0 ELSE 1

\* One grid of PropertiesComponent::update: reset, then filled when the
\* pool answered rows.
PropertyGrid(call, table, pool_present) ==
    IF pool_present /\ PropertyRows(call) > 0
    THEN TableUpdate(PropertyRows(call), 1, table)
    ELSE NewTable

\* PropertiesComponent::update: the column grid is reset, the four pool
\* calls are made, and only then the other grids are reset and filled; a
\* failing call returns at once.
PropertiesUpdate(p, table, pool_present, failing) ==
    IF pool_present /\ failing /= "none"
    THEN [p |-> [p EXCEPT !.column_table = TableReset(@)], err |-> TRUE]
    ELSE [p |-> [p EXCEPT
                    !.column_table = PropertyGrid("get_columns", table, pool_present),
                    !.constraint_table =
                        PropertyGrid("get_constraints", table, pool_present),
                    !.foreign_key_table =
                        PropertyGrid("get_foreign_keys", table, pool_present),
                    !.index_table = PropertyGrid("get_indexes", table, pool_present)],
          err |-> FALSE]

\* PropertiesComponent::handle_messages for TableSelected: reset() is the
\* empty default of Component, then update.
PropertiesSelected(p, table, pool_present, failing) ==
    PropertiesUpdate(p, table, pool_present, failing)

\* PropertiesComponent::event: the focused grid sees the key, then the four
\* grid keys move the focus; the answer is always NotConsumed.
FocusedGrid(p) ==
    CASE p.focus = "Column" -> "column_table"
      [] p.focus = "Constraint" -> "constraint_table"
      [] p.focus = "ForeignKey" -> "foreign_key_table"
      [] OTHER -> "index_table"
PropertiesFocus(p, key) ==
    CASE key = "tab_columns" -> "Column"
      [] key = "tab_constraints" -> "Constraint"
      [] key = "tab_foreign_keys" -> "ForeignKey"
      [] key = "tab_indexes" -> "Index"
      [] OTHER -> p.focus
PropertiesEvent(p, key) ==
    [p EXCEPT ![FocusedGrid(p)] = TableEvent(@, key).t,
              !.focus = PropertiesFocus(p, key)]

\* ----------------------------------------- components/sql_editor.rs
\* SqlEditorComponent::new: the completion reads from the pool when one is
\* held.
NewSqlEditor(source) ==
    [input |-> <<>>, input_idx |-> 0, input_cursor_position_x |-> 0,
     table |-> NewTable, query_result |-> [some |-> FALSE],
     completion |-> [NewCompletion EXCEPT !.source = source], focus |-> "Editor"]

\* compute_character_width: UnicodeWidthChar::width(c).unwrap(), which has
\* no width for a control character.
HasWidth(c) == c /= "\n"
compute_character_width(c) == 1

\* UnicodeWidthStr::width of the buffer: control characters count nothing.
RECURSIVE StrWidth(_)
StrWidth(s) ==
    IF s = <<>> THEN 0
    ELSE (IF HasWidth(Head(s)) THEN compute_character_width(Head(s)) ELSE 0)
         + StrWidth(Tail(s))

\* SqlEditorComponent::last_word_part: from the end of the last separator of
\* the WHOLE buffer (a byte offset) to the cursor index; the whole buffer
\* when it has no separator.
SqlWordStart(ed) ==
    find_last_separator(ed.input).index + find_last_separator(ed.input).length
SqlLastWordOk(ed) ==
    ~find_last_separator(ed.input).found
        \/ SliceOk(ed.input, SqlWordStart(ed), ed.input_idx)
SqlLastWordPart(ed) ==
    IF find_last_separator(ed.input).found
    THEN Slice(ed.input, SqlWordStart(ed), ed.input_idx)
    ELSE ed.input

\* SqlEditorComponent::complete
SqlComplete(ed) == [ed EXCEPT !.completion = CompletionReset(@)]

\* Width of the buffer's tail behind its last line break, as Backspace on a
\* line break computes the cursor column.
RECURSIVE TailWidth(_)
TailWidth(s) ==
    IF s = <<>> \/ s[Len(s)] = "\n" THEN 0
    ELSE compute_character_width(s[Len(s)]) + TailWidth(SubSeq(s, 1, Len(s) - 1))

SqlAnswer(ed, consumed) == [ed |-> ed, err |-> FALSE, panic |-> FALSE, consumed |-> consumed]
SqlPanic(ed) == [ed |-> ed, err |-> FALSE, panic |-> TRUE, consumed |-> FALSE]

\* Key::Char of editor_key_event: the character is inserted and the
\* completion is updated with the last word part.
SqlInserted(ed, c) ==
    [ed EXCEPT !.input = InsertAt(@, ed.input_idx, c), !.input_idx = @ + 1,
               !.input_cursor_position_x = @ + compute_character_width(c)]
SqlThenUpdate(ed) ==
    IF SqlLastWordOk(ed)
    THEN SqlAnswer([ed EXCEPT !.completion = CompletionUpdate(@, SqlLastWordPart(ed))],
                   TRUE)
    ELSE SqlPanic(ed)

\* Key::Backspace of editor_key_event.
SqlBackspaced(ed, removed_input) ==
    [ed EXCEPT !.input = removed_input, !.input_idx = @ - 1,
               !.input_cursor_position_x =
                   IF ed.input[ed.input_idx] = "\n" THEN TailWidth(removed_input)
                   ELSE (@ - compute_character_width(ed.input[ed.input_idx])) % 65536]
SqlBackspace(ed, overflow_checks) ==
    IF StrWidth(ed.input) > 0 /\ ed.input /= <<>> /\ ed.input_idx > 0
    THEN IF /\ ed.input[ed.input_idx] /= "\n"
            /\ ed.input_cursor_position_x < compute_character_width(ed.input[ed.input_idx])
            /\ overflow_checks
         THEN SqlPanic(ed)
         ELSE SqlAnswer(SqlBackspaced(ed, RemoveAt(ed.input, ed.input_idx - 1)), TRUE)
    ELSE SqlAnswer(ed, TRUE)

\* Key::Left and Key::Right of editor_key_event.
SqlLeft(ed) ==
    IF ed.input /= <<>> /\ ed.input_idx > 0
    THEN IF HasWidth(ed.input[ed.input_idx])
         THEN SqlAnswer([ed EXCEPT !.input_idx = @ - 1,
                                   !.input_cursor_position_x =
                                       SatSub(@, compute_character_width(
                                                     ed.input[ed.input_idx]))],
                        TRUE)
         ELSE SqlPanic([ed EXCEPT !.input_idx = @ - 1])
    ELSE SqlAnswer(ed, TRUE)
SqlRight(ed) ==
    IF ed.input_idx < Len(ed.input)
    THEN IF HasWidth(ed.input[ed.input_idx + 1])
         THEN SqlAnswer([ed EXCEPT !.input_idx = @ + 1,
                                   !.input_cursor_position_x =
                                       @ + compute_character_width(
                                               ed.input[ed.input_idx + 1])],
                        TRUE)
         ELSE SqlPanic([ed EXCEPT !.input_idx = @ + 1])
    ELSE SqlAnswer(ed, TRUE)

\* What pool.execute may answer: an error, the rows of a query, or the
\* number of rows a statement changed.
ExecuteResults ==
    {[kind |-> "Err"]} \cup {[kind |-> "Read", rows |-> n] : n \in 0..1}
        \cup {[kind |-> "Write", updated_rows |-> n] : n \in 0..2}

\* SqlEditorComponent::execute_query
ExecuteFailedFocusTable(ed) == [ed |-> [ed EXCEPT !.focus = "Table"], err |-> TRUE]
ExecuteFailed(ed) == [ed |-> ed, err |-> TRUE]
execute_query(ed, pool_present, result) ==
    IF ~pool_present THEN [ed |-> ed, err |-> FALSE]
    ELSE CASE result.kind = "Err" -> ExecuteFailed(ed)
           [] result.kind = "Read" ->
                [ed |-> [ed EXCEPT
                            !.table = TableUpdate(result.rows, 1, [rows |-> result.rows]),
                            !.focus = "Table",
                            !.query_result = [some |-> FALSE]],
                 err |-> FALSE]
           [] OTHER ->
                [ed |-> [ed EXCEPT
                            !.query_result =
                                [some |-> TRUE, updated_rows |-> result.updated_rows]],
                 err |-> FALSE]

\* QueryResult::result_str
result_strPlural(q) == "Query OK, " \o ToString(q.updated_rows) \o " rows affected"
result_str(q) == "Query OK, " \o ToString(q.updated_rows) \o " row affected"

\* SqlEditorComponent::draw, its lower pane: the message of the last
\* statement when there is one, otherwise the result table.
ResultPane(ed) ==
    IF ed.query_result.some
    THEN [kind |-> "message", text |-> result_str(ed.query_result)]
    ELSE [kind |-> "table", table |-> ed.table]

\* Key::F5 of editor_key_event.
SqlExecuted(r) == [ed |-> r.ed, err |-> r.err, panic |-> FALSE, consumed |-> ~r.err]

\* SqlEditorComponent::editor_key_event
editor_key_event(ed, key, pool_present, result, overflow_checks) ==
    CASE IsChar(key) -> SqlThenUpdate(SqlInserted(ed, key))
      [] key = "Enter" ->
           IF is_visible(ed.completion) THEN SqlAnswer(SqlComplete(ed), TRUE)
           ELSE SqlAnswer([ed EXCEPT !.input = InsertAt(@, ed.input_idx, "\n"),
                                     !.input_idx = @ + 1,
                                     !.input_cursor_position_x = 0],
                          TRUE)
      [] key = "Tab" ->
           IF is_visible(ed.completion) THEN SqlAnswer(SqlComplete(ed), TRUE)
           ELSE SqlAnswer(ed, FALSE)
      [] key = "Esc" -> SqlAnswer([ed EXCEPT !.focus = "Table"], TRUE)
      [] key = "Backspace" -> SqlBackspace(ed, overflow_checks)
      [] key = "Left" -> SqlLeft(ed)
      [] key = "Right" -> SqlRight(ed)
      [] key = "F5" -> SqlExecuted(execute_query(ed, pool_present, result))
      [] OTHER -> SqlAnswer(ed, FALSE)

\* SqlEditorComponent::event
SqlGridEvent(ed, te) == SqlAnswer([ed EXCEPT !.table = te.t], te.consumed)
SqlEditorEvent(ed, key, pool_present, result, overflow_checks) ==
    IF ed.focus = "Editor"
    THEN editor_key_event(ed, key, pool_present, result, overflow_checks)
    ELSE IF key = focus_above THEN SqlAnswer([ed EXCEPT !.focus = "Editor"], TRUE)
    ELSE SqlGridEvent(ed, TableEvent(ed.table, key))

\* SqlEditorComponent::handle_messages for TableSelected: the completion
\* reads from the pool when one is held.
SqlEditorSelected(ed, pool_present) ==
    IF pool_present THEN [ed EXCEPT !.completion.source = "pool"] ELSE ed

\* ----------------------------------------------------------- driving
commonVars == <<key_config, panicked, event_state, last_op, keys>>
tbVars == <<textbox>>
tabVars == <<tab_panel, message_queue>>
taVars == <<text_area>>
appVars == <<app, pools, pool_log, running>>
loopVars == <<loop_pc, batch, drains, tasks, shared_pool, sidebar>>
viewVars == <<record_table, properties, page_fetches, sql_editor>>

\* What a driven widget leaves alone: the other widgets.
exceptTextBox == <<tabVars, taVars, appVars, loopVars, viewVars>>
exceptTab == <<tbVars, taVars, appVars, loopVars, viewVars>>
exceptTextArea == <<tbVars, tabVars, appVars, loopVars, viewVars>>
exceptViews == <<tbVars, tabVars, taVars, appVars, loopVars>>

NoOp == [op |-> "init", arg |-> <<>>]
InitCommon ==
    /\ key_config \in KeyConfigs
    /\ panicked = FALSE /\ event_state = "None" /\ last_op = NoOp /\ keys = 0

\* The environment delivers one more event while the process is alive.
DeliverUpTo(budget) ==
    ~panicked /\ keys < budget /\ keys' = keys + 1 /\ UNCHANGED key_config
Deliver == DeliverUpTo(MaxKeys)

Result(consumed) == IF consumed THEN "Consumed" ELSE "NotConsumed"

\* ------------------------------------------------- the text input, driven
\* The widget is built with or without a completion widget.
InitTabVars == tab_panel = NewTabPanel /\ message_queue = <<>>
InitTextAreaVars == text_area = NewTextArea("default")
InitAppVars == app = NewApp /\ pools = <<>> /\ pool_log = <<>> /\ running = TRUE
AllDone ==
    [writer |-> "done", sidebar |-> "done", tab_panel |-> "done", records |-> "done",
     properties |-> "done", reading |-> NoDatabases]
InitLoopVars ==
    /\ loop_pc = "draw" /\ batch = <<>> /\ drains = 0 /\ tasks = AllDone
    /\ shared_pool = [pool |-> NoPool, writer |-> FALSE, readers |-> 0]
    /\ sidebar = NewSidebar
InitViewVars ==
    /\ record_table = NewRecordTable /\ properties = NewProperties
    /\ page_fetches = <<>>
    /\ sql_editor = NewSqlEditor("default")
InitTextBox ==
    /\ InitCommon
    /\ \E wc \in BOOLEAN : textbox = NewTextBox(wc)
    /\ InitTabVars
    /\ InitTextAreaVars
    /\ InitAppVars
    /\ InitLoopVars /\ InitViewVars

TextBoxKeys ==
    Alphabet \cup {"Delete", "CtrlBackspace", "CtrlLeft", "Backspace", "Left",
                   "Right", "Home", "End", "Enter", "Tab", "Esc", "Up", "Down",
                   "CtrlP", "CtrlN"}

\* Values handed to set_str: the caller (the rename box) passes a tab name.
SetStrValues == { <<"a", "n">>, <<"é", " ">> }

\* One key event delivered to TextBox::event.
TBKey(key) ==
    /\ Deliver
    /\ key \in Alphabet => Len(textbox.input) < MaxLen
    /\ LET r == TextBoxEvent(textbox, key)
       IN  /\ textbox' = r.tb
           /\ panicked' = r.panic
           /\ event_state' = IF r.panic THEN "None" ELSE Result(r.consumed)
           /\ last_op' =
                 IF key \in {"Enter", "Tab"} /\ r.consumed
                 THEN [op |-> "commit", arg |-> selected_candidate(textbox.completion)]
                 ELSE [op |-> "key", arg |-> <<key>>]
    /\ UNCHANGED exceptTextBox

\* TextBox::set_str, called on a text box without completion (the rename box).
TBSetStr(value) ==
    /\ Deliver
    /\ ~textbox.has_completion
    /\ textbox' = set_str(textbox, value)
    /\ last_op' = [op |-> "set_str", arg |-> value]
    /\ UNCHANGED <<panicked, event_state, exceptTextBox>>

\* TextBox::reset
TBReset ==
    /\ Deliver
    /\ textbox' = TextBoxReset(textbox)
    /\ last_op' = [op |-> "reset", arg |-> <<>>]
    /\ UNCHANGED <<panicked, event_state, exceptTextBox>>

\* TextBox::update_completion_src with a pool-backed source, as the Records
\* view does for its filter input when a table is selected.
TBUpdateCompletionSrc ==
    /\ Deliver
    /\ textbox.has_completion
    /\ textbox.completion.source = "default"
    /\ textbox' = update_completion_src(textbox, "pool")
    /\ last_op' = [op |-> "update_completion_src", arg |-> <<>>]
    /\ UNCHANGED <<panicked, event_state, exceptTextBox>>

NextTextBox ==
    \/ \E key \in TextBoxKeys : TBKey(key)
    \/ \E value \in SetStrValues : TBSetStr(value)
    \/ TBReset
    \/ TBUpdateCompletionSrc

vars == <<tbVars, tabVars, taVars, appVars, loopVars, viewVars, commonVars>>

SpecTextBox == InitTextBox /\ [][NextTextBox]_vars

\* --------------------------------------------------- the tab panel, driven
InitTextBoxVars == textbox = NewTextBox(FALSE)
InitTab ==
    /\ InitCommon /\ InitTabVars /\ InitTextBoxVars /\ InitTextAreaVars
    /\ InitAppVars /\ InitLoopVars /\ InitViewVars

TabKeys ==
    {"a", "x", "r", "0", "1", "2", "3", "4", "Delete", "Backspace", "Enter", "Esc",
     "Home", "End", "Left", "Right", "Up", "Down"}

\* The answer r of TabPanel::event takes effect.
TabKeyDone(r) ==
    /\ tab_panel' = r.tp
    /\ message_queue' = message_queue \o r.msgs
    /\ panicked' = r.panic
    /\ event_state' = IF r.panic THEN "None" ELSE Result(r.consumed)

\* One key event delivered to TabPanel::event while the queue is drained.
TabKey(key, content_consumed) ==
    /\ DeliverUpTo(MaxTabKeys)
    /\ message_queue = <<>>
    /\ (tab_panel.is_renaming /\ IsChar(key))
           => Len(tab_panel.rename_box.input) < MaxNameLen
    /\ (key = "a" /\ ~tab_panel.is_renaming) => Len(tab_panel.tab_names) < MaxTabs
    /\ TabKeyDone(TabPanelEvent(tab_panel, key, content_consumed))
    /\ last_op' = [op |-> "key", arg |-> <<key>>]
    /\ UNCHANGED exceptTab

\* The sidebar handles Enter on a table and pushes
\* DatabaseEvent::TableSelected.
TableSelected ==
    /\ DeliverUpTo(MaxTabKeys)
    /\ message_queue = <<>>
    /\ message_queue' = <<[type |-> "TableSelected"]>>
    /\ event_state' = "Consumed"
    /\ last_op' = [op |-> "key", arg |-> <<"Enter">>]
    /\ UNCHANGED <<tab_panel, panicked, exceptTab>>

\* The queue is drained and TabPanel::handle_messages gets its messages.
TabHandleMessages ==
    /\ ~panicked
    /\ message_queue /= <<>>
    /\ tab_panel' = HandleTabMessages(tab_panel, message_queue)
    /\ message_queue' = <<>>
    /\ last_op' = [op |-> "handle_messages", arg |-> message_queue]
    /\ UNCHANGED <<key_config, panicked, event_state, keys, exceptTab>>

\* TabPanel::reset
TabReset ==
    /\ DeliverUpTo(MaxTabKeys)
    /\ message_queue = <<>>
    /\ tab_panel' = TabPanelReset(tab_panel)
    /\ last_op' = [op |-> "reset", arg |-> <<>>]
    /\ UNCHANGED <<message_queue, panicked, event_state, exceptTab>>

NextTab ==
    \/ \E key \in TabKeys, content_consumed \in BOOLEAN : TabKey(key, content_consumed)
    \/ TableSelected
    \/ TabHandleMessages
    \/ TabReset

SpecTab == InitTab /\ [][NextTab]_vars

\* --------------------------------------------------- the text area, driven
\* The editor is built before or after a pool exists.
InitTextArea ==
    /\ InitCommon
    /\ \E source \in {"default", "pool"} : text_area = NewTextArea(source)
    /\ InitTabVars
    /\ InitTextBoxVars
    /\ InitAppVars
    /\ InitLoopVars /\ InitViewVars

TextAreaChars == {"a", " ", "é"}
TextAreaKeys ==
    TextAreaChars \cup {"Enter", "Tab", "Delete", "Home", "CtrlHome", "CtrlEnd", "End",
                        "Backspace", "Left", "Right", "Up", "Down", "CtrlP", "CtrlN"}

\* The answer r of TextArea::event takes effect.
TAKeyDone(r) ==
    /\ text_area' = r.ta
    /\ panicked' = r.panic
    /\ event_state' = IF r.panic THEN "None" ELSE Result(r.consumed)

\* One key event delivered to TextArea::event.
TAKey(key, overflow_checks) ==
    /\ DeliverUpTo(MaxAreaKeys)
    /\ key \in TextAreaChars
          => LineLen(text_area, text_area.cursor_position.row) < MaxCols
    /\ key = "Enter" => Len(text_area.buffer) < MaxLines
    /\ TAKeyDone(TextAreaEvent(text_area, key, overflow_checks))
    /\ last_op' = [op |-> "key", arg |-> <<key>>]
    /\ UNCHANGED exceptTextArea

NextTextArea ==
    \E key \in TextAreaKeys, overflow_checks \in BOOLEAN : TAKey(key, overflow_checks)

SpecTextArea == InitTextArea /\ [][NextTextArea]_vars

\* -------------------------------------------------- the application, driven
InitApp ==
    /\ InitCommon /\ InitAppVars /\ InitTabVars /\ InitTextBoxVars /\ InitTextAreaVars
    /\ InitLoopVars /\ InitViewVars

AppKeys == {"Enter", "c", "q", "CtrlC", "Left", "Right", "Up", "Esc", "<", ">"}

\* The answer r of App::event takes effect in main.
AppKeyDone(key, r) ==
    /\ app' = AppAfterEvent(r)
    /\ pools' = r.pools
    /\ pool_log' = r.pool_log
    /\ running' = StillRunning(key, r)
    /\ event_state' = IF r.err THEN "Err" ELSE Result(r.consumed)

\* One key event: main awaits App::event and looks at its answer. The pool
\* driver decides whether a pool can be created (create_ok) and whether the
\* sidebar's first calls on it succeed (update_ok).
AppKeyUpTo(budget, key, create_ok, update_ok, child, tree_focused, table_selected) ==
    /\ DeliverUpTo(budget)
    /\ running
    \* the driver's choices are fixed wherever the handler does not look at them
    /\ (app.error_visible \/ app.focus = "ConnectionList")
          => (child = "Consumed" /\ tree_focused /\ table_selected)
    /\ (app.error_visible \/ app.focus /= "ConnectionList" \/ key /= "Enter")
          => (create_ok /\ update_ok)
    /\ ~create_ok => update_ok
    \* no component of the panes binds Ctrl-C
    /\ (key = "CtrlC" /\ ~app.error_visible /\ app.focus /= "ConnectionList")
          => child = "NotConsumed"
    /\ (key /= "Enter" \/ child /= "NotConsumed") => table_selected
    /\ (key = "Enter" /\ app.focus = "ConnectionList" /\ ~app.error_visible /\ create_ok)
          => Len(pools) < MaxPools
    /\ AppKeyDone(key, AppEvent(AppState(app, pools, pool_log), key, create_ok,
                                update_ok, child, tree_focused))
    /\ tab_panel' =
          IF ReachesTabPanel(app, key, child, tree_focused, table_selected)
          THEN HandleTabMessage(tab_panel, [type |-> "TableSelected"])
          ELSE tab_panel
    /\ last_op' = [op |-> "key", arg |-> <<key>>]
    /\ UNCHANGED <<panicked, message_queue, tbVars, taVars, loopVars, viewVars>>

AppKey(key, create_ok, update_ok, child, tree_focused, table_selected) ==
    AppKeyUpTo(MaxAppKeys, key, create_ok, update_ok, child, tree_focused, table_selected)

NextApp ==
    \E key \in AppKeys, create_ok, update_ok, tree_focused, table_selected \in BOOLEAN,
       child \in {"Consumed", "NotConsumed", "Err"} :
        AppKey(key, create_ok, update_ok, child, tree_focused, table_selected)

SpecApp == InitApp /\ [][NextApp]_vars

\* ------------------------------------------- the sidebar width, driven
\* The keys of a run that resizes the sidebar: the two width keys, Enter to
\* connect and the focus keys.
WidthKeys == {"<", ">", "Enter", "Right", "c"}

\* One key event of such a run; every pool creation and sidebar update
\* succeeds, and the focused pane answers child.
WidthKey(key, child) ==
    AppKeyUpTo(MaxWidthKeys, key, TRUE, TRUE, child, TRUE, TRUE)

NextWidth ==
    \E key \in WidthKeys, child \in {"Consumed", "NotConsumed"} : WidthKey(key, child)

SpecWidth == InitApp /\ [][NextWidth]_vars

\* ------------------------------------------- the main loop and the fan-out
InitLoop ==
    /\ InitCommon /\ InitLoopVars /\ InitViewVars /\ InitAppVars /\ InitTabVars /\ InitTextBoxVars
    /\ InitTextAreaVars

\* What the event handlers of one key may leave in the queue.
HandlerMessages ==
    {<<>>, <<[type |-> "TableSelected"]>>, <<[type |-> "TabNew"]>>}
        \cup {<<[type |-> "ConnectionChanged", connection |-> c]>> : c \in Connections}

\* What the sidebar's own key handling may do to it: nothing, text typed into
\* the filter (which filters the tree), or the selection moved in the tree.
SidebarEdits == {"none", "filter", "move"}
SidebarEdited(sb, edit) ==
    CASE edit = "filter" -> [sb EXCEPT !.filter = <<"a">>, !.filterd_tree = "Some"]
      [] edit = "move" -> [sb EXCEPT !.selection = "Moved"]
      [] OTHER -> sb

\* No task of the fan-out is under way.
Idle == \A t \in {"writer", "sidebar", "tab_panel", "records", "properties"} :
            tasks[t] = "done"

unchangedByLoop == <<tbVars, taVars, viewVars, app, panicked>>

\* main: terminal.draw(|f| app.draw(f)).
LoopDraw ==
    /\ loop_pc = "draw"
    /\ loop_pc' = "next"
    /\ UNCHANGED <<batch, drains, tasks, shared_pool, sidebar, pools, pool_log, running,
                   tab_panel, message_queue, commonVars, unchangedByLoop>>

\* main: events.next() answers Event::Tick.
LoopTick ==
    /\ loop_pc = "next"
    /\ loop_pc' = "draw"
    /\ UNCHANGED <<batch, drains, tasks, shared_pool, sidebar, pools, pool_log, running,
                   tab_panel, message_queue, commonVars, unchangedByLoop>>

\* main: events.next() answers Event::Input(key) and app.event(key) runs the
\* event handlers, which may push messages; quit says that the key is a quit
\* key no handler consumed.
LoopInput(msgs, edit, quit) ==
    /\ loop_pc = "next"
    /\ DeliverUpTo(MaxLoopKeys)
    /\ (\E i \in 1..Len(msgs) : msgs[i].type = "ConnectionChanged") => Len(pools) < MaxPools
    /\ (\E i \in 1..Len(msgs) : msgs[i].type = "TabNew")
          => Len(tab_panel.tab_names) < MaxTabs
    /\ quit => msgs = <<>> /\ edit = "none"
    /\ message_queue' = message_queue \o msgs
    /\ sidebar' = SidebarEdited(sidebar, edit)
    /\ drains' = 0
    /\ loop_pc' = "drain"
    /\ running' = ~quit
    /\ event_state' = Result(~quit)
    /\ last_op' = [op |-> "key", arg |-> msgs]
    /\ UNCHANGED <<batch, tasks, shared_pool, pools, pool_log, tab_panel, unchangedByLoop>>

\* The queue is drained and its messages are handed to every component's
\* handle_messages; a connection change also starts the replacement of the
\* shared pool.
LoopDrain ==
    /\ loop_pc = "drain"
    /\ loop_pc' = "fanout"
    /\ batch' = message_queue
    /\ message_queue' = <<>>
    /\ drains' = drains + 1
    /\ tasks' = [AllDone EXCEPT
                    !.writer = IF ChangedConnection(message_queue).found
                               THEN "start" ELSE "done",
                    !.sidebar = "start",
                    !.tab_panel = "start"]
    /\ UNCHANGED <<shared_pool, sidebar, pools, pool_log, running, tab_panel, commonVars,
                   unchangedByLoop>>

\* The replacement of the shared pool takes the write guard, which it gets
\* when no guard is held.
WriterLock ==
    /\ loop_pc = "fanout" /\ tasks.writer = "start"
    /\ ~shared_pool.writer /\ shared_pool.readers = 0
    /\ shared_pool' = [shared_pool EXCEPT !.writer = TRUE]
    /\ tasks' = [tasks EXCEPT !.writer = "closing"]
    /\ UNCHANGED <<loop_pc, batch, drains, sidebar, pools, pool_log, running, tab_panel,
                   message_queue, commonVars, unchangedByLoop>>

\* The replacement closes the old pool, if there is one.
WriterClose ==
    /\ loop_pc = "fanout" /\ tasks.writer = "closing"
    /\ tasks' = [tasks EXCEPT !.writer = "creating"]
    /\ pools' = IF shared_pool.pool = NoPool THEN pools
                ELSE [pools EXCEPT ![shared_pool.pool].status = "closed",
                                   ![shared_pool.pool].closes = @ + 1]
    /\ pool_log' = IF shared_pool.pool = NoPool THEN pool_log
                   ELSE Append(pool_log, [ev |-> "close", pool |-> shared_pool.pool])
    /\ UNCHANGED <<loop_pc, batch, drains, shared_pool, sidebar, running, tab_panel,
                   message_queue, commonVars, unchangedByLoop>>

\* The replacement creates the new pool, publishes it and drops the guard.
WriterPublish ==
    /\ loop_pc = "fanout" /\ tasks.writer = "creating"
    /\ tasks' = [tasks EXCEPT !.writer = "done"]
    /\ pools' = Append(pools, [status |-> "connected", closes |-> 0,
                               replaced |-> shared_pool.pool])
    /\ pool_log' = pool_log \o <<[ev |-> "create", pool |-> Len(pools) + 1],
                                 [ev |-> "publish", pool |-> Len(pools) + 1]>>
    /\ shared_pool' = [shared_pool EXCEPT !.pool = Len(pools) + 1, !.writer = FALSE]
    /\ UNCHANGED <<loop_pc, batch, drains, sidebar, running, tab_panel, message_queue,
                   commonVars, unchangedByLoop>>

\* DatabasesComponent::handle_messages without a connection change in the
\* batch: nothing to do.
SidebarSkip ==
    /\ loop_pc = "fanout" /\ tasks.sidebar = "start"
    /\ ~ChangedConnection(batch).found
    /\ tasks' = [tasks EXCEPT !.sidebar = "done"]
    /\ UNCHANGED <<loop_pc, batch, drains, shared_pool, sidebar, pools, pool_log, running,
                   tab_panel, message_queue, commonVars, unchangedByLoop>>

\* DatabasesComponent::update up to its pool call: try_read on the shared
\* pool; without a guard or without a pool the list is empty and the update
\* completes at once, otherwise the call on the pool is awaited under the
\* read guard.
SidebarTryRead ==
    /\ loop_pc = "fanout" /\ tasks.sidebar = "start"
    /\ ChangedConnection(batch).found
    /\ IF TryReadFails(shared_pool) \/ shared_pool.pool = NoPool
       THEN /\ sidebar' = SidebarUpdated(sidebar, NoDatabases)
            /\ tasks' = [tasks EXCEPT !.sidebar = "done"]
            /\ UNCHANGED <<shared_pool, pool_log>>
       ELSE /\ shared_pool' = [shared_pool EXCEPT !.readers = @ + 1]
            /\ tasks' = [tasks EXCEPT
                            !.sidebar = "calling",
                            !.reading = DatabasesFrom(shared_pool.pool,
                                                      ChangedConnection(batch).connection)]
            /\ pool_log' = Append(pool_log, [ev |-> "call", pool |-> shared_pool.pool])
            /\ UNCHANGED sidebar
    /\ UNCHANGED <<loop_pc, batch, drains, pools, running, tab_panel, message_queue,
                   commonVars, unchangedByLoop>>

\* DatabasesComponent::update behind its pool call: the answer builds the
\* new tree; an error returns before the tree is touched. The read guard is
\* dropped either way.
SidebarAnswer(call_ok) ==
    /\ loop_pc = "fanout" /\ tasks.sidebar = "calling"
    /\ shared_pool' = [shared_pool EXCEPT !.readers = @ - 1]
    /\ sidebar' = IF call_ok THEN SidebarUpdated(sidebar, tasks.reading) ELSE sidebar
    /\ tasks' = [tasks EXCEPT !.sidebar = "done", !.reading = NoDatabases]
    /\ event_state' = IF call_ok THEN event_state ELSE "Err"
    /\ UNCHANGED <<loop_pc, batch, drains, pools, pool_log, running, tab_panel,
                   message_queue, key_config, panicked, last_op, keys, tbVars, taVars, viewVars,
                   app>>

\* TabPanel::handle_messages up to its join: the panel's own reactions, then
\* every tab's handle_messages is started.
TabOwnMessages ==
    /\ loop_pc = "fanout" /\ tasks.tab_panel = "start"
    /\ tab_panel' = HandleTabMessages(tab_panel, batch)
    /\ tasks' = [tasks EXCEPT !.tab_panel = "joining", !.records = "start",
                              !.properties = "start"]
    /\ UNCHANGED <<loop_pc, batch, drains, shared_pool, sidebar, pools, pool_log, running,
                   message_queue, commonVars, unchangedByLoop>>

\* One tab's handle_messages completes.
TabChildDone(child) ==
    /\ loop_pc = "fanout" /\ tasks[child] = "start"
    /\ tasks' = [tasks EXCEPT ![child] = "done"]
    /\ UNCHANGED <<loop_pc, batch, drains, shared_pool, sidebar, pools, pool_log, running,
                   tab_panel, message_queue, commonVars, unchangedByLoop>>

\* TabPanel::handle_messages returns from join_all.
TabJoined ==
    /\ loop_pc = "fanout" /\ tasks.tab_panel = "joining"
    /\ ChildrenJoined(tasks)
    /\ tasks' = [tasks EXCEPT !.tab_panel = "done"]
    /\ UNCHANGED <<loop_pc, batch, drains, shared_pool, sidebar, pools, pool_log, running,
                   tab_panel, message_queue, commonVars, unchangedByLoop>>

\* app.event(key).await returns to main once the fan-out is joined; main
\* leaves the loop on a quit key and goes on to draw otherwise.
LoopJoined ==
    /\ loop_pc = "fanout"
    /\ tasks.writer = "done" /\ tasks.sidebar = "done" /\ tasks.tab_panel = "done"
    /\ loop_pc' = IF running THEN "draw" ELSE "exited"
    /\ UNCHANGED <<batch, drains, tasks, shared_pool, sidebar, pools, pool_log, running,
                   tab_panel, message_queue, commonVars, unchangedByLoop>>

NextLoop ==
    \/ LoopDraw
    \/ LoopTick
    \/ \E msgs \in HandlerMessages, edit \in SidebarEdits, quit \in BOOLEAN :
           LoopInput(msgs, edit, quit)
    \/ LoopDrain
    \/ WriterLock
    \/ WriterClose
    \/ WriterPublish
    \/ SidebarSkip
    \/ SidebarTryRead
    \/ \E call_ok \in BOOLEAN : SidebarAnswer(call_ok)
    \/ TabOwnMessages
    \/ \E child \in {"records", "properties"} : TabChildDone(child)
    \/ TabJoined
    \/ LoopJoined

SpecLoop == InitLoop /\ [][NextLoop]_vars

\* ------------------------------------- the Records and Properties views
InitViews ==
    /\ InitCommon /\ InitViewVars /\ InitLoopVars /\ InitAppVars /\ InitTabVars
    /\ InitTextBoxVars /\ InitTextAreaVars

\* The answers of the two views to TableSelected take effect; the tab panel
\* reports the first error of its tabs.
ViewsSelected(r, q) ==
    /\ record_table' = r.rt
    /\ page_fetches' = r.fetched
    /\ properties' = q.p
    /\ event_state' = IF r.err \/ q.err THEN "Err" ELSE "None"

\* TableSelected reaches the handle_messages of both views; pool_present
\* says whether a pool is held, call_ok whether get_records succeeds and
\* failing which of the Properties view's pool calls fails.
ViewsTableSelected(table, pool_present, call_ok, failing) ==
    /\ DeliverUpTo(MaxViewKeys)
    /\ ViewsSelected(RecordTableSelected(record_table, table, pool_present, call_ok),
                     PropertiesSelected(properties, table, pool_present, failing))
    /\ last_op' = [op |-> "table_selected", arg |-> <<table>>]
    /\ UNCHANGED <<panicked, sql_editor, exceptViews>>

\* The answer r of RecordTableComponent::event takes effect.
RecordsKeyDone(r) ==
    /\ record_table' = r.rt
    /\ page_fetches' = IF r.fetched = <<>> THEN page_fetches ELSE r.fetched
    /\ panicked' = r.panic
    /\ event_state' = IF r.panic THEN "None" ELSE IF r.err THEN "Err"
                      ELSE Result(r.consumed)

RecordsKeys == {"/", "a", "Enter", "Esc", "Up", "Down"}

\* One key event delivered to RecordTableComponent::event.
RecordsKey(key, pool_present, call_ok) ==
    /\ DeliverUpTo(MaxViewKeys)
    /\ key = "a" => Len(record_table.filter.input) < MaxLen
    /\ key = "/" => record_table.focus = "Table"
    \* only Enter in the filter input reaches the pool
    /\ (key /= "Enter" \/ record_table.focus /= "Filter") => (pool_present /\ call_ok)
    /\ RecordsKeyDone(RecordTableEvent(record_table, key, pool_present, call_ok))
    /\ last_op' = [op |-> "key", arg |-> <<key>>]
    /\ UNCHANGED <<properties, sql_editor, exceptViews>>

\* The Down key delivered to the grid of the Records view: the row selected
\* before the key is kept with the operation.
RecordsScroll ==
    /\ ~panicked
    /\ record_table.focus = "Table"
    /\ RecordsKeyDone(RecordTableEvent(record_table, "Down", TRUE, TRUE))
    /\ last_op' = [op |-> "scroll", arg |-> <<record_table.table.selected_row>>]
    /\ UNCHANGED <<properties, key_config, keys, sql_editor, exceptViews>>

PropertiesKeys == {"tab_columns", "tab_constraints", "tab_foreign_keys", "tab_indexes"}

\* One key event delivered to PropertiesComponent::event.
PropertiesKey(key) ==
    /\ DeliverUpTo(MaxViewKeys)
    /\ properties' = PropertiesEvent(properties, key)
    /\ event_state' = "NotConsumed"
    /\ last_op' = [op |-> "properties_key", arg |-> <<key>>]
    /\ UNCHANGED <<record_table, page_fetches, panicked, sql_editor, exceptViews>>

PropertyFailures == {"none", "get_columns", "get_indexes"}

NextViews ==
    \/ \E table \in Tables, pool_present \in BOOLEAN, call_ok \in BOOLEAN,
          failing \in PropertyFailures :
           ViewsTableSelected(table, pool_present, call_ok, failing)
    \/ \E key \in RecordsKeys, pool_present \in BOOLEAN, call_ok \in BOOLEAN :
           RecordsKey(key, pool_present, call_ok)
    \/ \E key \in PropertiesKeys : PropertiesKey(key)

SpecViews == InitViews /\ [][NextViews]_vars

\* The Records view scrolled: a table is selected and read, and keys and any
\* number of Down keys reach the Records view.
NextRecords ==
    \/ \E table \in Tables, pool_present \in BOOLEAN, call_ok \in BOOLEAN :
           ViewsTableSelected(table, pool_present, call_ok, "none")
    \/ \E key \in RecordsKeys, pool_present \in BOOLEAN, call_ok \in BOOLEAN :
           RecordsKey(key, pool_present, call_ok)
    \/ RecordsScroll

SpecRecords == InitViews /\ [][NextRecords]_vars

\* --------------------------------------------------- the SQL editor, driven
InitSqlEditor ==
    /\ InitCommon /\ InitViewVars /\ InitLoopVars /\ InitAppVars /\ InitTabVars
    /\ InitTextBoxVars /\ InitTextAreaVars

SqlKeys == {"a", " ", "é", "Enter", "Tab", "Esc", "Backspace", "Left", "Right", "F5",
            "Up", "Down", "s", "e", "l"}

\* The letters s, e, l are typed in this order at the end of the buffer, to
\* spell the word part "sel".
SpellsSel(input, key) ==
    \/ key = "s" /\ input = <<>>
    \/ key = "e" /\ input = <<"s">>
    \/ key = "l" /\ input = <<"s", "e">>

\* The answer r of SqlEditorComponent::event takes effect.
SqlKeyDone(r) ==
    /\ sql_editor' = r.ed
    /\ panicked' = r.panic
    /\ event_state' = IF r.panic THEN "None" ELSE IF r.err THEN "Err"
                      ELSE Result(r.consumed)

\* One key event delivered to SqlEditorComponent::event; pool_present says
\* whether a pool is held and result what pool.execute answers (both read
\* by F5 only), overflow_checks how the build treats integer overflow (read
\* by Backspace only).
SqlKey(key, pool_present, result, overflow_checks) ==
    /\ key /= "F5" => (pool_present /\ result.kind = "Err")
    /\ key /= "Backspace" => overflow_checks
    /\ DeliverUpTo(MaxSqlKeys)
    /\ (IsChar(key) \/ key = "Enter") => Len(sql_editor.input) < MaxSqlLen
    /\ key \in {"s", "e", "l"} => SpellsSel(sql_editor.input, key)
    /\ SqlKeyDone(SqlEditorEvent(sql_editor, key, pool_present, result, overflow_checks))
    /\ last_op' = IF key = "F5" /\ sql_editor.focus = "Editor"
                  THEN [op |-> "execute",
                        arg |-> IF ~pool_present THEN <<"NoPool">>
                                ELSE IF result.kind = "Read" THEN <<"Read", result.rows>>
                                ELSE IF result.kind = "Write"
                                THEN <<"Write", result.updated_rows>>
                                ELSE <<"Err">>]
                  ELSE [op |-> "key", arg |-> <<key>>]
    /\ UNCHANGED <<record_table, properties, page_fetches, exceptViews>>

\* TableSelected reaches SqlEditorComponent::handle_messages.
SqlTableSelected(pool_present) ==
    /\ DeliverUpTo(MaxSqlKeys)
    /\ sql_editor' = SqlEditorSelected(sql_editor, pool_present)
    /\ event_state' = "None"
    /\ last_op' = [op |-> "table_selected", arg |-> <<>>]
    /\ UNCHANGED <<record_table, properties, page_fetches, panicked, exceptViews>>

NextSqlEditor ==
    \/ \E key \in SqlKeys, pool_present \in BOOLEAN, result \in ExecuteResults,
          overflow_checks \in BOOLEAN :
           SqlKey(key, pool_present, result, overflow_checks)
    \/ \E pool_present \in BOOLEAN : SqlTableSelected(pool_present)

SpecSqlEditor == InitSqlEditor /\ [][NextSqlEditor]_vars

\* ------------------------------------------------- claims: the text input
\* The current word of a text: its longest suffix of word characters (the
\* text between the last non-word character and the end).
RECURSIVE WordSuffix(_)
WordSuffix(s) ==
    IF s = <<>> \/ ~IsWordChar(s[Len(s)]) THEN <<>>
    ELSE WordSuffix(SubSeq(s, 1, Len(s) - 1)) \o <<s[Len(s)]>>

CurrentWord(tb) == WordSuffix(SubSeq(tb.input, 1, tb.input_cursor_position))

WordOnly(s) == \A p \in 1..Len(s) : IsWordChar(s[p])

\* C2: after any sequence of key events and calls to set_str/reset on the
\* text input, the cursor index lies in [0, buffer length] (in characters).
C2_CursorWithinBuffer ==
    /\ 0 <= textbox.input_cursor_position
    /\ textbox.input_cursor_position <= Len(textbox.input)

\* C2 witness: Ctrl+Backspace has cut a non-empty buffer at a word boundary
\* and left text in it.
C2_Witness ==
    /\ last_op = [op |-> "key", arg |-> <<"CtrlBackspace">>]
    /\ ~panicked
    /\ textbox.input /= <<>>
    /\ textbox.input_cursor_position = Len(textbox.input)

C1_SelectedTabInRange ==
    /\ tab_panel.selected_tab_index >= 0
    /\ tab_panel.selected_tab_index < Len(tab_panel.tab_names)
    /\ Len(tab_panel.tab_components) = Len(tab_panel.tab_names)
    /\ Len(tab_panel.tab_components) >= 2
    /\ tab_panel.tab_components[1] = RecordsTab
    /\ tab_panel.tab_components[2] = PropertiesTab
    /\ tab_panel.tab_names[1] = RecordsName
    /\ tab_panel.tab_names[2] = PropertiesName

\* C1 witness: the last of two SQL editor tabs was closed while selected,
\* and the selection moved to the tab that is now last.
C1_Witness ==
    /\ last_op = [op |-> "handle_messages", arg |-> <<[type |-> "TabCloseCurrent"]>>]
    /\ Len(tab_panel.tab_names) = 3
    /\ tab_panel.selected_tab_index = 2

\* C8: once the tab panel has handled a table-selected message, the selected
\* tab index is 0 (Records) and the panel's focus is on the content.
C8_TableSelectedShowsRecords ==
    (last_op.op = "handle_messages"
        /\ \E i \in 1..Len(last_op.arg) : last_op.arg[i].type = "TableSelected")
    => (tab_panel.selected_tab_index = 0 /\ tab_panel.focus = "Content")

\* C8 witness: a table-selected message was handled while an SQL editor tab
\* was open and a rename was under way in the toolbar.
C8_Witness ==
    /\ last_op = [op |-> "handle_messages", arg |-> <<[type |-> "TableSelected"]>>]
    /\ Len(tab_panel.tab_names) = 3
    /\ tab_panel.is_renaming
    /\ tab_panel.selected_tab_index = 0
    /\ tab_panel.focus = "Content"

\* ---------------------------------------------------- claims: the text area
\* C3: in every state reachable from a freshly constructed editor the cursor
\* (r, c) satisfies 0 <= r < number of lines and 0 <= c <= length of line r.
\* The empty buffer of the fresh editor is read as one empty line, so that
\* the fresh editor itself is not counted against the claim.
C3_CursorWithinText ==
    ~panicked =>
        IF text_area.buffer = <<>>
        THEN text_area.cursor_position = [row |-> 0, col |-> 0]
        ELSE /\ 0 <= text_area.cursor_position.row
             /\ text_area.cursor_position.row < Len(text_area.buffer)
             /\ 0 <= text_area.cursor_position.col
             /\ text_area.cursor_position.col
                   <= Len(text_area.buffer[text_area.cursor_position.row + 1])

\* -------------------------------------------------- claims: the application
\* C5: in every reachable state the pool held by the application is connected
\* (not closed), and every pool that was created is closed exactly once, on
\* replacement or at shutdown: no pool is closed twice, and a pool that is no
\* longer held, or that is held when the main loop has ended, has been closed.
C5_HeldPoolConnectedClosedOnce ==
    /\ app.pool /= NoPool => pools[app.pool].status = "connected"
    /\ \A p \in 1..Len(pools) :
          /\ pools[p].closes <= 1
          /\ (p /= app.pool \/ ~running) => pools[p].closes = 1

\* C6: on a connection change, close() of the previous pool has completed
\* before the new pool is published and before any call is made on the new
\* pool: in the order of completed calls, the close of the replaced pool
\* precedes the publication of, and every call on, the pool that replaced it.
C6_CloseBeforePublish ==
    \A j \in 1..Len(pool_log) :
        (pool_log[j].ev \in {"publish", "call"}
            /\ pools[pool_log[j].pool].replaced /= NoPool)
        => \E i \in 1..(j - 1) :
               pool_log[i] = [ev |-> "close", pool |-> pools[pool_log[j].pool].replaced]

\* C6 witness: a second pool replaced the first one and the sidebar has made
\* its call on it.
C6_Witness ==
    /\ Len(pools) >= 2
    /\ app.pool = 2
    /\ pools[2].replaced = 1
    /\ \E j \in 1..Len(pool_log) : pool_log[j] = [ev |-> "call", pool |-> 2]

\* ------------------------------------------ claims: main loop and fan-out
\* C7: after the sidebar has handled ConnectionChanged(Some(c)), in every
\* interleaving of the fan-out with the replacement of the shared pool, its
\* database list is the one the pool for c answers (c's pinned database with
\* its tables, or get_databases()), the filter text and the filtered tree
\* are cleared and the tree selection is reset. Stated for the end of the
\* fan-out of such a message when no call on a pool has failed.
C7_SidebarListsNewPool ==
    (loop_pc \in {"draw", "exited"} /\ ChangedConnection(batch).found /\ event_state /= "Err")
    => /\ sidebar.databases
            = DatabasesFrom(shared_pool.pool, ChangedConnection(batch).connection)
       /\ sidebar.filter = <<>>
       /\ sidebar.filterd_tree = "None"
       /\ sidebar.selection = "Initial"

C11_ResetRestoresNew == last_op.op = "reset" => tab_panel = NewTabPanel

\* ------------------------------------------- claims: Records, Properties
\* C12: for a selected table of 200*k rows and no filter, scrolling to the
\* end of the data has issued exactly k+1 page fetches, fetch i asking for
\* row offset 200*(i-1): once the Down key is pressed on the last loaded row
\* (or on the empty grid), the fetches issued are exactly those.
RECURSIVE C12_RowsLoaded(_, _)
C12_RowsLoaded(table, fetches) ==
    IF fetches = <<>> THEN 0
    ELSE RowsFrom(table, Head(fetches).offset) + C12_RowsLoaded(table, Tail(fetches))
C12_ScrolledToEnd ==
    /\ last_op.op = "scroll"
    /\ record_table.table.rows = C12_RowsLoaded(record_table.dtable, page_fetches)
    /\ record_table.dtable /= NoTable
    /\ record_table.table.of = record_table.dtable
    /\ get_text(record_table.filter) = <<>>
    /\ last_op.arg[1] = (IF record_table.table.rows = 0 THEN NoSel
                         ELSE record_table.table.rows - 1)
    /\ \A i \in 1..Len(page_fetches) : page_fetches[i].ok /\ ~page_fetches[i].filter.some
    /\ page_fetches /= <<>>
C12_PageFetches ==
    C12_ScrolledToEnd
    => /\ Len(page_fetches) = record_table.dtable.rows \div RECORDS_LIMIT_PER_PAGE + 1
       /\ \A i \in 1..Len(page_fetches) :
              page_fetches[i].offset = RECORDS_LIMIT_PER_PAGE * (i - 1)

\* --------------------------------------------------- claims: SQL editor
\* C13: when F5 submits a statement and pool.execute fails, the error is
\* returned and the editor (buffer, cursor, focus, result table, result
\* message) is exactly as it was before the key.
C13_FailedExecuteKeepsEditor ==
    [][last_op' = [op |-> "execute", arg |-> <<"Err">>]
          => (event_state' = "Err" /\ sql_editor' = sql_editor)]_vars

\* C13 witness: F5 has failed on an editor whose buffer is not empty and
\* which shows the message of an earlier statement.
C13_Witness ==
    /\ last_op = [op |-> "execute", arg |-> <<"Err">>]
    /\ event_state = "Err"
    /\ sql_editor.input /= <<>>
    /\ sql_editor.query_result.some
    /\ sql_editor.focus = "Editor"

\* ---------------------------------------------------------------- claim C14
\* C14: while the error overlay is visible, every key event is consumed by the
\* overlay and reaches no other component: the focus, the held pool, the pane
\* split, the pools, the tab panel and the running flag stay as they were.
\* The exit-popup key hides the overlay and clears its message, any other key
\* leaves the overlay as it is.
C14_OverlayConsumesKeys ==
    [][(app.error_visible /\ last_op'.op = "key") =>
          /\ event_state' = "Consumed"
          /\ app'.focus = app.focus
          /\ app'.pool = app.pool
          /\ app'.left_main_chunk_percentage = app.left_main_chunk_percentage
          /\ pools' = pools
          /\ pool_log' = pool_log
          /\ tab_panel' = tab_panel
          /\ running'
          /\ (last_op'.arg[1] = "Esc" => (~app'.error_visible /\ app'.error = ""))
          /\ (last_op'.arg[1] /= "Esc" => app' = app)]_vars

\* The exit-popup key has been consumed with the focus on the connection
\* picker, which itself never consumes it: the overlay raised by a failed
\* connection took the key, and is now hidden with its message cleared.
C14_Witness ==
    /\ last_op = [op |-> "key", arg |-> <<"Esc">>]
    /\ event_state = "Consumed"
    /\ ~app.error_visible
    /\ app.error = ""
    /\ app.focus = "ConnectionList"
    /\ pools /= <<>>

\* ---------------------------------------------------------------- claim C15
\* C15: whenever the handling of a key event returns an error, from the
\* connection step of the root or from a child below it, the error reaches
\* main: the overlay becomes visible holding the message of that error, and
\* the main loop keeps running for the next event.
C15_ErrorReachesOverlay ==
    [][(last_op'.op = "key" /\ event_state' = "Err") =>
          /\ app'.error_visible
          /\ app'.error =
                IF app.focus /= "ConnectionList" THEN "component failed"
                ELSE IF Len(pools') = Len(pools) THEN "pool creation failed"
                ELSE "sidebar update failed"
          /\ running']_vars

\* A key handled below the tab panel pane has failed: the overlay shows the
\* child's message and the loop is still running.
C15_Witness ==
    /\ last_op.op = "key"
    /\ event_state = "Err"
    /\ app.focus = "TabPanel"
    /\ app.error_visible
    /\ app.error = "component failed"
    /\ running

\* --------------------------------------- the completion widget, called directly
\* CompletionComponent::update is public and takes any word part; the words
\* considered hold letters of either case and a character that does not
\* compile as a pattern.
MaxUpdateLen == 2
MaxUpdates == 4
UpdateWords == UNION {[1..n -> {"a", "n", "A", "N", "("}] : n \in 0..MaxUpdateLen}

InitCompletion ==
    /\ InitCommon
    /\ textbox = NewTextBox(TRUE)
    /\ InitTabVars /\ InitTextAreaVars /\ InitAppVars /\ InitLoopVars /\ InitViewVars

\* One call of CompletionComponent::update(word_part); it returns nothing.
CompletionUpdateCall(word_part) ==
    /\ DeliverUpTo(MaxUpdates)
    /\ textbox' = [textbox EXCEPT !.completion = CompletionUpdate(@, word_part)]
    /\ last_op' = [op |-> "update", arg |-> word_part,
                    from |-> textbox.completion.selected]
    /\ UNCHANGED <<panicked, event_state, exceptTextBox>>

\* One key handed to CompletionComponent::event.
CompletionKey(key) ==
    /\ DeliverUpTo(MaxUpdates)
    /\ textbox' = [textbox EXCEPT !.completion = CompletionEvent(@, key).c]
    /\ event_state' = Result(CompletionEvent(textbox.completion, key).consumed)
    /\ last_op' = [op |-> "key", arg |-> <<key, textbox.completion.selected>>]
    /\ UNCHANGED <<panicked, exceptTextBox>>

\* One call of CompletionComponent::reset.
CompletionResetCall ==
    /\ DeliverUpTo(MaxUpdates)
    /\ textbox' = [textbox EXCEPT !.completion = CompletionReset(@)]
    /\ last_op' = [op |-> "reset", arg |-> <<>>]
    /\ UNCHANGED <<panicked, event_state, exceptTextBox>>

NextCompletion ==
    \/ \E word_part \in UpdateWords : CompletionUpdateCall(word_part)
    \/ \E key \in {"Up", "Down", "CtrlP", "CtrlN"} : CompletionKey(key)
    \/ CompletionResetCall

SpecCompletion == InitCompletion /\ [][NextCompletion]_vars

\* ---------------------------------------------------------------- claim C16
\* C16: when the completion source returns an error during
\* CompletionComponent::update, the widget ends with an empty candidate list
\* and no selection.
C16_FailedUpdateEmpties ==
    (last_op.op = "update" /\ ~PatternCompiles(last_op.arg))
        => (textbox.completion.candidates = <<>> /\ textbox.completion.selected = NoSel)

\* ---------------------------------------------------------------- claim C17
\* C17: when a pool call fails while the Records or the Properties view
\* reacts to TableSelected, the view whose call failed ends empty (the record
\* grid without headers and rows, all four properties grids empty), and the
\* focus inside both views is as before. A view whose calls succeeded shows
\* the selected table.
C17_GridEmpty(t) == t.rows = 0 /\ t.headers = 0
C17_PropertiesEmpty(p) ==
    /\ C17_GridEmpty(p.column_table) /\ C17_GridEmpty(p.constraint_table)
    /\ C17_GridEmpty(p.foreign_key_table) /\ C17_GridEmpty(p.index_table)
C17_FailedSelectionEmpties ==
    [][(last_op'.op = "table_selected" /\ event_state' = "Err") =>
          /\ \/ C17_GridEmpty(record_table'.table)
             \/ record_table'.table.of = last_op'.arg[1]
          /\ \/ C17_PropertiesEmpty(properties')
             \/ properties' = PropertiesUpdate(properties, last_op'.arg[1], TRUE, "none").p
          /\ record_table'.focus = record_table.focus
          /\ properties'.focus = properties.focus]_vars

\* ---------------------------------------------------------------- claim C18
\* C18: when the fetch issued by submitting the filter with Enter fails, the
\* error is returned from the key handler and the record grid keeps the
\* headers, the rows and the selected row it had before the key.
C18_FailedFetchKeepsGrid ==
    [][(last_op' = [op |-> "key", arg |-> <<"Enter">>] /\ event_state' = "Err") =>
          /\ record_table'.table = record_table.table
          /\ page_fetches' /= <<>>
          /\ ~page_fetches'[Len(page_fetches')].ok]_vars

\* A populated grid with its second row selected, after a failed submission
\* of the filter.
C18_Witness ==
    /\ last_op = [op |-> "key", arg |-> <<"Enter">>]
    /\ event_state = "Err"
    /\ record_table.table.rows > 0
    /\ record_table.table.headers > 0
    /\ record_table.table.selected_row = 1
    /\ record_table.focus = "Filter"

\* ---------------------------------------------------------------- claim C19
\* C19: Ctrl+Backspace in the text input deletes exactly the characters
\* between a boundary before the cursor and the cursor: the characters after
\* the cursor are kept and the cursor ends at that boundary. Any position
\* before the cursor is accepted as the boundary here.
C19_DeletesBackToBoundary ==
    [][(last_op' = [op |-> "key", arg |-> <<"CtrlBackspace">>] /\ ~panicked') =>
          \E b \in 0..textbox.input_cursor_position :
              /\ textbox'.input =
                    SubSeq(textbox.input, 1, b)
                    \o SubSeq(textbox.input, textbox.input_cursor_position + 1,
                              Len(textbox.input))
              /\ textbox'.input_cursor_position = b]_vars

\* ---------------------------------------------------------------- claim C20
\* C20: for a word part that compiles as a pattern, the default completion
\* source returns exactly the keywords that start with the word part, letters
\* compared without regard to case, in the order of the keyword list: "an"
\* and "AN" give a list that holds AND and not FROM, "n" gives NOT, NULL.
C20_SameLetter(c, d) == c = d \/ {c, d} = {"a", "A"} \/ {c, d} = {"n", "N"}
C20_StartsWith(kw, word) ==
    /\ Len(kw) >= Len(word)
    /\ \A p \in 1..Len(word) : C20_SameLetter(kw[p], word[p])
C20_Holds(list, kw) == \E p \in 1..Len(list) : list[p] = kw
C20_KeywordsByPrefix ==
    (last_op.op = "update" /\ PatternCompiles(last_op.arg)) =>
        /\ textbox.completion.candidates =
              SelectSeq(Keywords, LAMBDA kw : C20_StartsWith(kw, last_op.arg))
        /\ last_op.arg \in {<<"a", "n">>, <<"A", "N">>} =>
              /\ C20_Holds(textbox.completion.candidates, <<"A", "N", "D">>)
              /\ ~C20_Holds(textbox.completion.candidates, <<"F", "R", "O", "M">>)
        /\ last_op.arg = <<"n">> =>
              textbox.completion.candidates = << <<"N", "O", "T">>, <<"N", "U", "L", "L">> >>

\* The source has answered the upper-case word "AN" with the keyword AND,
\* which is selected.
C20_Witness ==
    /\ last_op.op = "update" /\ last_op.arg = <<"A", "N">>
    /\ textbox.completion.candidates = << <<"A", "N", "D">> >>
    /\ textbox.completion.selected = 0

\* ---------------------------------------------------------------- claim C21
\* C21: a Ctrl-C key event ends the main loop in every application state,
\* whichever pane has the focus and whether or not the error overlay is
\* shown, and the quit key ends it whenever no component consumed the key.
C21_CtrlCAlwaysQuits ==
    [][/\ last_op' = [op |-> "key", arg |-> <<"CtrlC">>] => ~running'
       /\ (last_op' = [op |-> "key", arg |-> <<"q">>] /\ event_state' = "NotConsumed")
             => ~running']_vars

\* ---------------------------------------------------------------- claim C22
\* C22: committing the selected candidate with Enter or Tab replaces only the
\* last word part, from the end of the last run of non-word characters before
\* the cursor up to the cursor, with the candidate: the text before that range
\* and the text after the cursor are unchanged and the cursor ends right
\* behind the inserted candidate.
C22_WordStart(input, cursor) ==
    LET seps == {p \in 1..cursor : p <= Len(input) /\ ~IsWordChar(input[p])}
    IN  IF seps = {} THEN 0 ELSE CHOOSE p \in seps : \A q \in seps : q <= p
C22_Committed(input, cursor, candidate) ==
    SubSeq(input, 1, C22_WordStart(input, cursor))
    \o candidate \o SubSeq(input, cursor + 1, Len(input))
C22_CommitReplacesWordPart ==
    [][(last_op'.op = "commit" /\ ~panicked') =>
          /\ textbox'.input =
                C22_Committed(textbox.input, textbox.input_cursor_position, last_op'.arg)
          /\ textbox'.input_cursor_position =
                C22_WordStart(textbox.input, textbox.input_cursor_position)
                + Len(last_op'.arg)]_vars

\* ---------------------------------------------------------------- claim C23
\* C23: in the SQL editor, after "sel" has been typed the dropdown is visible
\* with SELECT as the selected candidate, and Tab or Enter then commits it:
\* the buffer becomes "SELECT " and the dropdown is hidden.
C23_TabCommitsSelect ==
    [][(/\ last_op = [op |-> "key", arg |-> <<"l">>]
        /\ sql_editor.input = <<"s", "e", "l">>
        /\ last_op' \in {[op |-> "key", arg |-> <<"Tab">>],
                         [op |-> "key", arg |-> <<"Enter">>]}) =>
          /\ is_visible(sql_editor.completion)
          /\ sql_editor.completion.selected = 0
          /\ selected_candidate(sql_editor.completion) = <<"S", "E", "L", "E", "C", "T">>
          /\ sql_editor'.input = <<"S", "E", "L", "E", "C", "T", " ">>
          /\ ~is_visible(sql_editor'.completion)]_vars

\* ------------------------------------------ the tab panel, one cycle per key
\* One cycle of the main loop on the tab panel: the key is handled, then the
\* messages it pushed are handed to TabPanel::handle_messages. The operation
\* kept with the state is the text typed into the rename box since it was
\* opened ("typed"), and that text again when Enter submits it ("renamed").
MaxCycleKeys == 6
MaxTyped == 3
CycleKeys == {"a", "r", "e", "s", "3", "Enter", "Esc"}
TypedSoFar == IF last_op.op = "typed" THEN last_op.arg ELSE <<>>
CycleDone(r) ==
    /\ tab_panel' = HandleTabMessages(r.tp, r.msgs)
    /\ panicked' = r.panic
    /\ event_state' = IF r.panic THEN "None" ELSE Result(r.consumed)
CycleKey(key) ==
    /\ DeliverUpTo(MaxCycleKeys)
    /\ (tab_panel.is_renaming /\ IsChar(key)) => Len(TypedSoFar) < MaxTyped
    /\ (key = "a" /\ ~tab_panel.is_renaming) => Len(tab_panel.tab_names) < MaxTabs
    /\ CycleDone(TabPanelEvent(tab_panel, key, FALSE))
    /\ last_op' =
          IF tab_panel.is_renaming /\ IsChar(key)
          THEN [op |-> "typed", arg |-> Append(TypedSoFar, key)]
          ELSE IF tab_panel.is_renaming /\ key = "Enter"
          THEN [op |-> "renamed", arg |-> TypedSoFar]
          ELSE [op |-> "key", arg |-> <<key>>]
    /\ UNCHANGED <<message_queue, exceptTab>>

NextCycle == \E key \in CycleKeys : CycleKey(key)
SpecCycle == InitTab /\ [][NextCycle]_vars

\* ---------------------------------------------------------------- claim C24
\* C24: from the initial tab panel the keys 'a', 'r', the characters of a
\* name and Enter produce a third tab whose name is exactly the typed name,
\* while the names of the Records and Properties tabs are unchanged.
C24_RenamedAsTyped ==
    (/\ last_op.op = "renamed"
     /\ last_op.arg /= <<>>
     /\ keys = Len(last_op.arg) + 3
     /\ Len(tab_panel.tab_names) = 3) =>
        /\ tab_panel.tab_names[3] = last_op.arg
        /\ tab_panel.tab_names[1] = RecordsName
        /\ tab_panel.tab_names[2] = PropertiesName

\* ---------------------------------------------------------------- claim C25
\* C25: when TabCloseCurrent closes the selected SQL editor tab at index
\* i >= 2, whatever the number of open tabs, the tab is removed from the
\* toolbar and from the content list and the selection moves to index i - 1.
C25_CloseSelectsPrevious ==
    [][(/\ last_op' = [op |-> "handle_messages", arg |-> <<[type |-> "TabCloseCurrent"]>>]
        /\ tab_panel.selected_tab_index >= 2) =>
          /\ tab_panel'.tab_names =
                RemoveAt(tab_panel.tab_names, tab_panel.selected_tab_index)
          /\ tab_panel'.tab_components =
                RemoveAt(tab_panel.tab_components, tab_panel.selected_tab_index)
          /\ tab_panel'.selected_tab_index = tab_panel.selected_tab_index - 1]_vars

\* ------------------------------------- the sidebar's filter, driven by keys
\* The sidebar with a listed connection: the tree holds the tables of the
\* list, named here by their table names.
MaxSidebarKeys == 5
MaxFilterLen == 2
FilterKey == "/"
SidebarChars == {"a", "b", "/"}
SidebarTables == {<<"a">>, <<"a", "b">>, <<"b">>}
NoTree == [some |-> FALSE, tables |-> {}]
ListedSidebar(tables) ==
    [tree |-> tables, filter |-> <<>>, filterd_tree |-> NoTree, focus |-> "Tree"]

\* DatabaseTree::filter: the tree of the tables whose name contains the
\* filter string.
Contains(name, s) ==
    \E i \in 0..(Len(name) - Len(s)) : SubSeq(name, i + 1, i + Len(s)) = s
TreeFilter(tables, s) ==
    [some |-> TRUE, tables |-> {t \in tables : Contains(t, s)}]

\* DatabaseFilterComponent::event: a character is appended to the input,
\* Backspace removes its last character, any other key is left alone.
DatabaseFilterEvent(input, key) ==
    IF key \in SidebarChars
    THEN [input |-> Append(input, key), consumed |-> TRUE]
    ELSE IF key = "Backspace"
    THEN [input |-> SubSeq(input, 1, Len(input) - 1), consumed |-> TRUE]
    ELSE [input |-> input, consumed |-> FALSE]

\* DatabasesComponent::tree: the filtered tree when there is one, otherwise
\* the whole tree.
tree(db) == IF db.filterd_tree.some THEN db.filterd_tree.tables ELSE db.tree

\* DatabasesComponent::event, its second statement: with the focus on the
\* filter the filtered tree is computed from the filter input as the input is
\* when the key arrives.
Refiltered(db) ==
    IF db.focus = "Filter"
    THEN [db EXCEPT !.filterd_tree =
              IF db.filter = <<>> THEN NoTree ELSE TreeFilter(db.tree, db.filter)]
    ELSE db

\* DatabasesComponent::event from its match on: Enter in the filter gives the
\* focus to the tree; any other key in the filter goes to the filter input;
\* with the focus on the tree the key moves the selection of the tree in
\* effect (moved says that it did), and Enter on a table (selected, <<>> for
\* none) pushes TableSelected.
DatabasesDispatch(db, key, moved, selected) ==
    IF key = "Enter" /\ db.focus = "Filter"
    THEN [db |-> [db EXCEPT !.focus = "Tree"], msgs |-> <<>>, consumed |-> TRUE]
    ELSE IF db.focus = "Filter"
    THEN [db |-> [db EXCEPT !.filter = DatabaseFilterEvent(db.filter, key).input],
          msgs |-> <<>>, consumed |-> DatabaseFilterEvent(db.filter, key).consumed]
    ELSE IF moved
    THEN [db |-> db, msgs |-> <<>>, consumed |-> TRUE]
    ELSE IF key = "Enter" /\ selected /= <<>>
    THEN [db |-> db, msgs |-> <<[type |-> "TableSelected", table |-> selected]>>,
          consumed |-> TRUE]
    ELSE [db |-> db, msgs |-> <<>>, consumed |-> FALSE]

\* DatabasesComponent::event.
DatabasesEvent(db, key, moved, selected) ==
    IF key = FilterKey /\ db.focus = "Tree"
    THEN [db |-> [db EXCEPT !.focus = "Filter"], msgs |-> <<>>, consumed |-> TRUE]
    ELSE DatabasesDispatch(Refiltered(db), key, moved, selected)

SidebarKeys == SidebarChars \cup {"Backspace", "Enter", "Down"}
InitSidebar ==
    /\ InitCommon /\ InitTabVars /\ InitTextBoxVars /\ InitTextAreaVars
    /\ InitAppVars /\ InitViewVars
    /\ loop_pc = "draw" /\ batch = <<>> /\ drains = 0 /\ tasks = AllDone
    /\ shared_pool = [pool |-> NoPool, writer |-> FALSE, readers |-> 0]
    /\ sidebar = ListedSidebar(SidebarTables)
SidebarKeyDone(r) ==
    /\ sidebar' = r.db
    /\ message_queue' = r.msgs
    /\ event_state' = Result(r.consumed)
SidebarKey(key, moved, selected) ==
    /\ DeliverUpTo(MaxSidebarKeys)
    /\ (sidebar.focus = "Filter" /\ key \in SidebarChars)
          => Len(sidebar.filter) < MaxFilterLen
    /\ moved => (key = "Down" /\ sidebar.focus = "Tree" /\ tree(sidebar) /= {})
    /\ selected /= <<>>
          => (key = "Enter" /\ sidebar.focus = "Tree" /\ selected \in tree(sidebar))
    /\ SidebarKeyDone(DatabasesEvent(sidebar, key, moved, selected))
    /\ last_op' = [op |-> "key", arg |-> <<key>>]
    /\ UNCHANGED <<loop_pc, batch, drains, tasks, shared_pool, panicked,
                   tab_panel, tbVars, taVars, appVars, viewVars>>

NextSidebar ==
    \E key \in SidebarKeys, moved \in BOOLEAN, selected \in SidebarTables \cup {<<>>} :
        SidebarKey(key, moved, selected)
SpecSidebar == InitSidebar /\ [][NextSidebar]_vars

\* ---------------------------------------------------------------- claim C26
\* C26: after every key event of the sidebar the tree in effect is, when the
\* filter string is non-empty, the tree filtered by the filter string as it
\* is now (only the tables whose name contains it), and the whole tree when
\* the filter string is empty.
C26_TreeFollowsFilter ==
    last_op.op = "key" =>
        tree(sidebar) = IF sidebar.filter = <<>> THEN sidebar.tree
                        ELSE TreeFilter(sidebar.tree, sidebar.filter).tables

\* ---------------------------------------------------------------- claim C27
\* C27: after F5 in the SQL editor has executed successfully, on a Read
\* result the result table holds exactly the returned headers and rows, the
\* message of an earlier statement is cleared and the focus is on the result
\* table; on a Write result the message "Query OK, N row affected" with N the
\* number of updated rows is displayed in place of the result table and the
\* focus stays in the editor.
C27_Message(n) ==
    CASE n = 0 -> "Query OK, 0 row affected"
      [] n = 1 -> "Query OK, 1 row affected"
      [] OTHER -> "Query OK, 2 row affected"
C27_ExecuteShowsResult ==
    [][/\ (last_op'.op = "execute" /\ last_op'.arg[1] = "Read") =>
            /\ event_state' = "Consumed"
            /\ sql_editor'.table
                  = TableUpdate(last_op'.arg[2], 1, [rows |-> last_op'.arg[2]])
            /\ ~sql_editor'.query_result.some
            /\ ResultPane(sql_editor') = [kind |-> "table", table |-> sql_editor'.table]
            /\ sql_editor'.focus = "Table"
       /\ (last_op'.op = "execute" /\ last_op'.arg[1] = "Write") =>
            /\ event_state' = "Consumed"
            /\ ResultPane(sql_editor')
                  = [kind |-> "message", text |-> C27_Message(last_op'.arg[2])]
            /\ sql_editor'.table = sql_editor.table
            /\ sql_editor'.focus = "Editor"]_vars

\* C27 witness: a statement that changed two rows has been executed on an
\* editor whose result table holds the row of an earlier query; its message
\* is displayed in place of that table.
C27_Witness ==
    /\ last_op = [op |-> "execute", arg |-> <<"Write", 2>>]
    /\ sql_editor.table.rows = 1
    /\ sql_editor.query_result.some
    /\ ResultPane(sql_editor).kind = "message"
    /\ sql_editor.focus = "Editor"

\* ---------------------------------------------------------------- claim C28
\* C28: every record fetch the Records view issues in reaction to
\* TableSelected or to Enter in the filter input asks for offset 0 of the
\* table selected at that moment, and passes the filter text as predicate
\* exactly when the filter input is not empty at that moment.
C28_FirstPage(fetched, table, text) ==
    \A i \in 1..Len(fetched) :
        /\ fetched[i].offset = 0
        /\ fetched[i].table = table
        /\ fetched[i].filter.some <=> text /= <<>>
        /\ fetched[i].filter.some => fetched[i].filter.text = text
C28_FetchesFirstPage ==
    [][/\ last_op'.op = "table_selected" =>
            C28_FirstPage(page_fetches', last_op'.arg[1],
                          get_text(record_table'.filter))
       /\ (last_op' = [op |-> "key", arg |-> <<"Enter">>]
             /\ record_table.focus = "Filter") =>
            \A pool_present \in BOOLEAN, call_ok \in BOOLEAN :
                (/\ record_table'
                       = RecordTableEvent(record_table, "Enter", pool_present, call_ok).rt
                 /\ RecordTableEvent(record_table, "Enter", pool_present, call_ok).fetched
                       \in {page_fetches', <<>>})
                => C28_FirstPage(
                       RecordTableEvent(record_table, "Enter", pool_present, call_ok).fetched,
                       record_table.dtable, get_text(record_table.filter))]_vars

\* C28 witness: Enter in the filter input holding a text has fetched the
\* first page of the selected table under that text.
C28_Witness ==
    /\ last_op = [op |-> "key", arg |-> <<"Enter">>]
    /\ event_state = "Consumed"
    /\ record_table.focus = "Table"
    /\ record_table.dtable /= NoTable
    /\ get_text(record_table.filter) /= <<>>
    /\ page_fetches
          = <<[table |-> record_table.dtable, offset |-> 0,
               filter |-> [some |-> TRUE, text |-> get_text(record_table.filter)],
               ok |-> TRUE]>>

\* ---------------------------------------------------------------- claim C29
\* C29: in the text area, with the completion dropdown not visible, Enter in
\* any reachable state, the fresh empty buffer included, splits the current
\* line at the cursor: the text before the cursor stays on the line, the text
\* from the cursor on becomes a new line right after it, the number of lines
\* grows by one and the cursor moves to column 0 of the new line. The empty
\* buffer of the fresh editor is read as one empty line.
C29_Lines(ta) == IF ta.buffer = <<>> THEN << <<>> >> ELSE ta.buffer
C29_Split(lines, row, col) ==
    SubSeq(lines, 1, row)
        \o <<SubSeq(lines[row + 1], 1, col)>>
        \o <<SubSeq(lines[row + 1], col + 1, Len(lines[row + 1]))>>
        \o SubSeq(lines, row + 2, Len(lines))
C29_EnterSplitsLine ==
    [][(/\ last_op' = [op |-> "key", arg |-> <<"Enter">>]
        /\ ~is_visible(text_area.completion)) =>
          /\ ~panicked'
          /\ text_area.cursor_position.row < Len(C29_Lines(text_area))
          /\ text_area.cursor_position.col
                <= Len(C29_Lines(text_area)[text_area.cursor_position.row + 1])
          /\ text_area'.buffer
                = C29_Split(C29_Lines(text_area), text_area.cursor_position.row,
                            text_area.cursor_position.col)
          /\ text_area'.cursor_position
                = [row |-> text_area.cursor_position.row + 1, col |-> 0]]_vars

\* ---------------------------------------------------------------- claim C30
\* C30: in the text area, Delete with the cursor at the end of a line that
\* has a following line merges the following line into it (one line less,
\* cursor unchanged); Delete with the cursor before the end of a line removes
\* exactly the character under the cursor; Delete at the end of the last line
\* changes nothing; in all cases the cursor is on an existing line
\* afterwards. The empty buffer of the fresh editor is read as one empty line.
C30_Merged(lines, row) ==
    SubSeq(lines, 1, row) \o <<lines[row + 1] \o lines[row + 2]>>
        \o SubSeq(lines, row + 3, Len(lines))
C30_CharRemoved(lines, row, col) ==
    [lines EXCEPT ![row + 1] =
        SubSeq(@, 1, col) \o SubSeq(@, col + 1 + ByteLen(@[col + 1]), Len(@))]
C30_DeleteAtCursor ==
    [][(/\ last_op' = [op |-> "key", arg |-> <<"Delete">>]
        /\ text_area.cursor_position.row < Len(C29_Lines(text_area))) =>
          /\ ~panicked'
          /\ text_area'.cursor_position = text_area.cursor_position
          /\ text_area'.cursor_position.row < Len(C29_Lines(text_area'))
          /\ C29_Lines(text_area') =
                IF text_area.cursor_position.col
                      < LineLen(text_area, text_area.cursor_position.row)
                THEN C30_CharRemoved(text_area.buffer, text_area.cursor_position.row,
                                     text_area.cursor_position.col)
                ELSE IF text_area.cursor_position.row + 1 < Len(text_area.buffer)
                THEN C30_Merged(text_area.buffer, text_area.cursor_position.row)
                ELSE C29_Lines(text_area)]_vars

\* ---------------------------------------------------------------- claim C31
\* C31: in the text area, with the completion dropdown not visible, Left at
\* column 0 of a row r > 0 moves to the end of row r-1, Right at the end of a
\* row that is not the last moves to column 0 of the next row, and Up and
\* Down move the cursor by one row whenever such a row exists and clamp the
\* column to the length of the row moved to. Stated for a cursor that is on
\* a line of the buffer and for keys the completion widget does not bind.
C31_Clamped(col, line) == IF col > Len(line) THEN Len(line) ELSE col
C31_Target(ta, key) ==
    LET row == ta.cursor_position.row
        col == ta.cursor_position.col
    IN  CASE key = "Left" /\ col = 0 /\ row > 0 ->
               [row |-> row - 1, col |-> Len(ta.buffer[row])]
          [] key = "Right" /\ col = Len(ta.buffer[row + 1]) /\ row + 1 < Len(ta.buffer) ->
               [row |-> row + 1, col |-> 0]
          [] key = "Up" /\ row > 0 ->
               [row |-> row - 1, col |-> C31_Clamped(col, ta.buffer[row])]
          [] key = "Down" /\ row + 1 < Len(ta.buffer) ->
               [row |-> row + 1, col |-> C31_Clamped(col, ta.buffer[row + 2])]
          [] OTHER -> ta.cursor_position
C31_ArrowsMoveCursor ==
    [][(/\ last_op'.op = "key"
        /\ last_op'.arg[1] \in {"Left", "Right", "Up", "Down"}
        /\ ~is_visible(text_area.completion)
        /\ ~CompletionEvent(text_area.completion, last_op'.arg[1]).consumed
        /\ text_area.cursor_position.row < Len(text_area.buffer)) =>
          /\ ~panicked'
          /\ ((last_op'.arg[1] \in {"Up", "Down"}
                 \/ (last_op'.arg[1] = "Left" /\ text_area.cursor_position.col = 0)
                 \/ (last_op'.arg[1] = "Right"
                       /\ text_area.cursor_position.col
                             = LineLen(text_area, text_area.cursor_position.row)))
               => text_area'.cursor_position
                     = C31_Target(text_area, last_op'.arg[1]))]_vars

\* ---------------------------------------------------------------- claim C32
\* C32: in the text area, Backspace at column 0 of a row r > 0 removes row r
\* and appends its text to row r-1, leaving the cursor on row r-1 at the
\* former end of that row; Backspace at column c > 0 removes exactly the
\* character before the cursor and moves the cursor to column c-1;
\* Backspace at (0,0) changes nothing. The empty buffer of the fresh editor
\* is read as one empty line.
C32_CharStart(line, col) == IF line[col] = Cont THEN col - 2 ELSE col - 1
C32_Expected(lines, row, col) ==
    IF row = 0 /\ col = 0 THEN [lines |-> lines, row |-> 0, col |-> 0]
    ELSE IF col > 0
    THEN [lines |-> [lines EXCEPT ![row + 1] =
                        SubSeq(@, 1, C32_CharStart(@, col)) \o SubSeq(@, col + 1, Len(@))],
          row |-> row, col |-> col - 1]
    ELSE [lines |-> SubSeq(lines, 1, row - 1) \o <<lines[row] \o lines[row + 1]>>
                       \o SubSeq(lines, row + 2, Len(lines)),
          row |-> row - 1, col |-> Len(lines[row])]
C32_Holds(ta, tb, e) ==
    /\ C29_Lines(tb) = e.lines
    /\ tb.cursor_position = [row |-> e.row, col |-> e.col]
C32_BackspaceAtCursor ==
    [][(/\ last_op' = [op |-> "key", arg |-> <<"Backspace">>]
        /\ text_area.cursor_position.row < Len(C29_Lines(text_area))) =>
          /\ ~panicked'
          /\ text_area.cursor_position.col
                <= Len(C29_Lines(text_area)[text_area.cursor_position.row + 1])
          /\ C32_Holds(text_area, text_area',
                       C32_Expected(C29_Lines(text_area), text_area.cursor_position.row,
                                    text_area.cursor_position.col))]_vars

\* ---------------------------------------------------------------- claim C33
\* C33: after any sequence of update, move-up, move-down and reset on the
\* completion widget the selected index is none or a valid index into the
\* current candidate list, so that selected_candidate never reads out of
\* bounds; move-down on the last candidate and move-up on the first leave
\* the selection unchanged.
C33_Valid(c) == c.selected = NoSel \/ (0 <= c.selected /\ c.selected < Len(c.candidates))
C33_SelectionValidNoWrap ==
    /\ [](C33_Valid(textbox.completion) /\ SelectedInRange(textbox.completion))
    /\ [][/\ (last_op'.op = "key" /\ last_op'.arg[1] = move_down
                /\ textbox.completion.selected = Len(textbox.completion.candidates) - 1)
             => textbox'.completion.selected = textbox.completion.selected
          /\ (last_op'.op = "key" /\ last_op'.arg[1] = move_up
                /\ textbox.completion.selected = 0)
             => textbox'.completion.selected = 0]_vars

\* C33 witness: move-down has been handed to the widget while the second and
\* last of two candidates was selected, and it still is.
C33_Witness ==
    /\ last_op = [op |-> "key", arg |-> <<move_down, 1>>]
    /\ Len(textbox.completion.candidates) = 2
    /\ textbox.completion.selected = 1

\* ---------------------------------------------------------------- claim C34
\* C34: after CompletionComponent::update(w) has succeeded the candidate list
\* is exactly the source's result for w, and the selection is index 0 when
\* that list is not empty and none otherwise, whatever the candidates and
\* the selection were before.
C34_UpdateReplaces ==
    (last_op.op = "update" /\ PatternCompiles(last_op.arg)) =>
        /\ textbox.completion.candidates
              = suggested_completion_items(textbox.completion.source, last_op.arg)
        /\ textbox.completion.word = last_op.arg
        /\ textbox.completion.selected
              = IF textbox.completion.candidates /= <<>> THEN 0 ELSE NoSel

\* C34 witness: update("an") has succeeded on a widget whose second candidate
\* was selected; the list is AND alone, with index 0 selected.
C34_Witness ==
    /\ last_op.op = "update" /\ last_op.arg = <<"a", "n">>
    /\ last_op.from = 1
    /\ textbox.completion.candidates = << <<"A", "N", "D">> >>
    /\ textbox.completion.selected = 0

\* C35: in the text box, while the completion dropdown is not visible (or the
\* text box has no completion), Enter and Tab are answered NotConsumed and
\* leave the buffer, the cursor and the completion state as they were.
C35_EnterTabPassThrough ==
    [][ \A key \in {"Enter", "Tab"} :
          ( /\ TBKey(key)
            /\ ~textbox.has_completion \/ ~is_visible(textbox.completion) )
          => /\ event_state' = "NotConsumed"
             /\ ~panicked'
             /\ textbox' = textbox ]_vars

\* Enter came back NotConsumed on a text box with completion whose dropdown
\* is hidden and whose buffer holds text.
C35_Witness ==
    /\ last_op = [op |-> "key", arg |-> <<"Enter">>]
    /\ event_state = "NotConsumed"
    /\ textbox.has_completion
    /\ ~is_visible(textbox.completion)
    /\ textbox.input /= <<>>
    /\ textbox.input_cursor_position > 0

\* C36: with the toolbar focused and not renaming, a digit key d in 1..9
\* with d <= number of tabs selects tab d-1 and is consumed; a digit with no
\* such tab leaves the selection and is not consumed; the left/right keys
\* step the selection by one and leave it at the first/last tab; Home
\* selects the first tab and End the last.
C36_Digits == {"0", "1", "2", "3", "4", "5", "6", "7", "8", "9"}
C36_Digit(key) == CHOOSE d \in 0..9 : DigitChar(d) = key
C36_Holds(tp, key, after, answer) ==
    LET len == Len(tp.tab_names)
        sel == tp.selected_tab_index
    IN  /\ (key \in C36_Digits /\ C36_Digit(key) \in 1..len)
              => (after.selected_tab_index = C36_Digit(key) - 1 /\ answer = "Consumed")
        /\ (key \in C36_Digits /\ C36_Digit(key) \notin 1..len)
              => (after.selected_tab_index = sel /\ answer = "NotConsumed")
        /\ key = focus_left
              => after.selected_tab_index = (IF sel = 0 THEN sel ELSE sel - 1)
        /\ key = focus_right
              => after.selected_tab_index = (IF sel = len - 1 THEN sel ELSE sel + 1)
        /\ key = "Home" => after.selected_tab_index = 0
        /\ key = "End" => after.selected_tab_index = len - 1
C36_ToolbarSelection ==
    [][ \A key \in TabKeys, content_consumed \in BOOLEAN :
          ( /\ TabKey(key, content_consumed)
            /\ tab_panel.focus = "Toolbar"
            /\ ~tab_panel.is_renaming )
          => (~panicked' /\ C36_Holds(tab_panel, key, tab_panel', event_state')) ]_vars

\* The digit key 3 was consumed on the focused toolbar and selected the third
\* of at least three tabs.
C36_Witness ==
    /\ last_op = [op |-> "key", arg |-> <<"3">>]
    /\ event_state = "Consumed"
    /\ tab_panel.focus = "Toolbar"
    /\ ~tab_panel.is_renaming
    /\ Len(tab_panel.tab_names) >= 3
    /\ tab_panel.selected_tab_index = 2

\* C37: after any sequence of TabNew, TabCloseCurrent and TabRename
\* messages the toolbar's tab names and the panel's tab components have the
\* same length, every toolbar name equals its component's tab_name(), and
\* entries 0 and 1 are named Records and Properties.
C37_NamesMatchComponents ==
    /\ Len(tab_panel.tab_names) = Len(tab_panel.tab_components)
    /\ \A i \in 1..Len(tab_panel.tab_names) :
          i <= Len(tab_panel.tab_components)
             => tab_panel.tab_names[i] = tab_name(tab_panel.tab_components[i])
    /\ Len(tab_panel.tab_names) >= 2
    /\ tab_panel.tab_names[1] = RecordsName
    /\ tab_panel.tab_names[2] = PropertiesName

\* A TabRename message was handled and gave the third tab, an SQL editor, a
\* name other than the one it was created with.
C37_Witness ==
    /\ last_op.op = "handle_messages"
    /\ Len(last_op.arg) = 1
    /\ last_op.arg[1].type = "TabRename"
    /\ last_op.arg[1].index = 2
    /\ Len(tab_panel.tab_names) = 3
    /\ tab_panel.tab_names[3] /= SqlEditorName(1)
    /\ tab_panel.tab_names[3] = tab_panel.tab_components[3].editor_name

\* C38: in the SQL editor, after any sequence of character, Enter,
\* Backspace, Left and Right keys the cursor index stays within
\* [0, buffer length], and the last word part computed for completion after
\* a character key is never sliced out of range: the start of the slice (the
\* end of the last separator of the buffer) never exceeds the cursor index.
C38_CursorInRange(ed) == 0 <= ed.input_idx /\ ed.input_idx <= Len(ed.input)
C38_SliceInRange(ed) ==
    find_last_separator(ed.input).found => SqlWordStart(ed) <= ed.input_idx
C38_LastWordPartInRange ==
    [][ /\ C38_CursorInRange(sql_editor')
        /\ \A key \in SqlKeys :
              ( /\ IsChar(key)
                /\ sql_editor.focus = "Editor"
                /\ last_op' = [op |-> "key", arg |-> <<key>>]
                /\ keys' /= keys )
              => C38_SliceInRange(SqlInserted(sql_editor, key)) ]_vars

\* C39: whenever the application focus is the database list or the tab
\* panel, a pool is held, it is the most recently created one and it has not
\* been closed; and the focus leaves the connection list only through an
\* Enter that created a pool and populated the sidebar.
C39_PoolLive(a, ps) ==
    /\ a.pool /= NoPool
    /\ a.pool = Len(ps)
    /\ a.pool \in 1..Len(ps) => (ps[a.pool].status = "connected" /\ ps[a.pool].closes = 0)
C39_EnterConnected ==
    /\ last_op' = [op |-> "key", arg |-> <<"Enter">>]
    /\ event_state' = "Consumed"
    /\ Len(pools') = Len(pools) + 1
    /\ app'.pool = Len(pools')
    /\ pool_log' = pool_log \o (IF app.pool = NoPool THEN <<>>
                                ELSE <<[ev |-> "close", pool |-> app.pool]>>)
                            \o <<[ev |-> "create", pool |-> app'.pool],
                                 [ev |-> "publish", pool |-> app'.pool],
                                 [ev |-> "call", pool |-> app'.pool]>>
C39_FocusNeedsLivePool ==
    [][ /\ app'.focus \in {"DatabaseList", "TabPanel"} => C39_PoolLive(app', pools')
        /\ (app.focus = "ConnectionList" /\ app'.focus /= "ConnectionList")
              => C39_EnterConnected ]_vars

\* The tab panel has the focus on the second pool, created by a second Enter
\* on the connection list after the first pool was closed.
C39_Witness ==
    /\ app.focus = "TabPanel"
    /\ app.pool = 2
    /\ Len(pools) = 2
    /\ pools[1].status = "closed"
    /\ pools[2].status = "connected"

\* C40: the sidebar width percentage is always within [15, 70]; the widen
\* key adds 5 capped at 70, the narrow key subtracts 5 floored at 15, and
\* both keys are reported Consumed whether or not the width changed.
C40_Widened(w) == IF w + 5 > 70 THEN 70 ELSE w + 5
C40_Narrowed(w) == IF w - 5 < 15 THEN 15 ELSE w - 5
C40_ReachesResize(child) ==
    ~app.error_visible /\ (app.focus = "ConnectionList" \/ child = "NotConsumed")
C40_WidthWithinBounds ==
    [][ /\ app'.left_main_chunk_percentage \in 15..70
        /\ \A child \in {"Consumed", "NotConsumed"} :
              /\ (WidthKey(">", child) /\ C40_ReachesResize(child))
                    => /\ app'.left_main_chunk_percentage
                              = C40_Widened(app.left_main_chunk_percentage)
                       /\ event_state' = "Consumed"
              /\ (WidthKey("<", child) /\ C40_ReachesResize(child))
                    => /\ app'.left_main_chunk_percentage
                              = C40_Narrowed(app.left_main_chunk_percentage)
                       /\ event_state' = "Consumed" ]_vars

\* The widen key was consumed with the width already at its cap of 70.
C40_Witness ==
    /\ keys = 12
    /\ last_op = [op |-> "key", arg |-> <<">">>]
    /\ event_state = "Consumed"
    /\ app.left_main_chunk_percentage = 70
    /\ app.focus = "ConnectionList"
    /\ ~app.error_visible
====
